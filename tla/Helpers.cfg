CONSTANTS
  RandMax = 25
  MaxClasses = 5
  Part = {"", "a"}
  Session = {0, 57, 304}
  Site = {10957}
  Type = {1, 8}
  Time = {5, 6}
  MaxParts = 2
  MaxTo = 2
  MaxBody = 2
  Byte = {0, 1, 65, 90, 127}
  MaxText = 5
  Width = {32, 64}
  HashByte = {128, 255}
  MaxHashed = 130
  FullSize = {0, 3, 26, 70}
  SiteId = {s1, s2}
  Place = {a1, a2, a3}
  NoSite = NoSite
  Caller = {c1, c2}
  NameAt = {n1, n2}
  Made = {m1, m2}
  NoClass = NoClass
  Conn = {d1, d2, d3}
  MaxPosts = 3
  Peer = {p1, p2}
  BuffSize = 1024
  Pieces <- MCPieces
  MaxPieces = 2
SPECIFICATION HelpersSpec
CHECK_DEADLOCK FALSE
INVARIANTS
  HelpersTypeOK
  DrawIsRight
  ArrivesAsSent
  PackageComesBack
  Base64Correct
  Sha1IsStandard
  HeldIsGood
PROPERTIES
  DemoIsService
  StartsOrEnds
  AcceptedUnlessBlocked
  RequestsReachOperator
