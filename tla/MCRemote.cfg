CONSTANTS
  g1 = g1
  g2 = g2
  s1 = s1
  s2 = s2
  Caller = {g1, g2}
  Writer = g1
  Secret = {s1, s2}
  Stores = {"bw","op","proton","lastpass","infisical","vault","azure","doppler","connect","aws","gcp"}
  MaxItems = 2
  Wiped = Wiped
  None = None
SYMMETRY SecretSymm
SPECIFICATION RemoteSpec
INVARIANTS StoreHolds ReadsTrue
