\* Two calls at a time for two subjects asking for the same slug, with ids whose
\* suffixes collide as well.
\* Alice's callers retry, and no external call made for her fails every time.
CONSTANTS
  t1 = t1  t2 = t2  t3 = t3
  Calls = {c1, c2}
  Subjects = {alice, bob}
  Ids = {t1, t2, t3}
  Bases = {acme}
  NoBase = NoBase
  DigitsOf <- SharedDigits
  Nobody = Nobody
  Mode = "execute"
  Attempts = 2
  Retrying = {alice}
SPECIFICATION FairSpec
INVARIANTS
  RegistrySound
PROPERTIES
  ImplementsRegistry
  EveryoneBound
