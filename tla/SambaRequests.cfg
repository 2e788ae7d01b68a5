SPECIFICATION Spec
CONSTANTS
  Users = {"ann", "root"}
  Groups = {"team"}
  Settings = {"plain", "clash"}
  ShareForms <- OneShare
  AccessForms <- GrantForms
  Folded <- LowerCase
  DefaultSettings = "plain"
  NoSettings = "none"
  Refused = {"clash"}
  Existing = {"root"}
  FirstMasters = {"absent", "stray"}
  Clients = {c1, c2}
  NoClient = none
  Environment = {"command", "reload", "nospace", "restart", "crash"}
  MaxBreaks = 1
SYMMETRY Threads
INVARIANTS TypeOK ConfIsState NeverServesRefused MembersManaged KeepsExisting MatrixIsServed
PROPERTIES DeletedMeansRevoked NothingLost OriginalKept
