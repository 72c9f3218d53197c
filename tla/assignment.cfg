\* Two developers and two tickets, each at first absent.
SPECIFICATION Spec
CONSTANTS
  Users = {1, 2}
  Developers = {1, 2}
  Tickets = {t1, t2}
  Reqs = {r1, r2}
  NoUser = NoUser
  Words = {word}
  NoWord = NoWord
  NoTicket = NoTicket
  Free = Free
  NewStatuses <- InReview
  PatchStatuses <- Done
SYMMETRY HandlersAndTickets
INVARIANTS TypeOK AssigneesAreMembers ExportIsImported
PROPERTIES ChoiceIsLeastLoaded
