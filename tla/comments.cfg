\* Three handlers on a comment that names any of three users.
SPECIFICATION Spec
CONSTANTS
    john = john
    johnDoe = johnDoe
    mary = mary
    Users = {john, johnDoe, mary}
    Extracted <- CutAtTheHyphen
    Comments = {c1}
    Reqs = {r1, r2, r3}
    NoUser = NoUser
    NoComment = NoComment
    Free = Free
SYMMETRY Interchangeable
INVARIANTS TypeOK NoMentionOfTheGone MentionsMatchContent
