CONSTANTS
  i1 = i1
  i2 = i2
  w1 = w1
  w2 = w2
  ann = ann
  root = root
  demo = demo
  s0 = s0
  s1 = s1
  s2 = s2
  Nobody = Nobody
  Instances = {i1, i2}
  Workers = {w1, w2}
  Host <- MCHost
  Emails = {ann, root, demo}
  Secrets = {s0, s1, s2}
  AdminEmail = root
  DemoEmail = demo
  SeedSecret <- MCSeedSecret
  Requests <- MCRequests
  MaxCrashes = 0
SPECIFICATION Spec
INVARIANT LoserIsToldTaken
