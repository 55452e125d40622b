--------------------------- MODULE DatabaseProofs ---------------------------
(***************************************************************************)
(* What a refresh guarantees for any directories, files and contents, and  *)
(* however they change while it runs: nothing stale stays loaded, nothing  *)
(* that should run is missing, and nothing is unloaded without a cause.    *)
(***************************************************************************)
EXTENDS Database, TLAPS

-----------------------------------------------------------------------------
(* The inductive invariant, across refreshes.                              *)

\* Only files that the environment writes exist, and only they are loaded.
Existing ==
    /\ \A p \in Paths : file[p].there => p \in host.paths
    /\ DOMAIN tabs \subseteq host.paths
    /\ unopened \subseteq host.paths
    /\ \A h \in open : h.path \in host.paths

\* A key that was recorded is not newer than the file, nor the file than the clock.
KeysOld ==
    /\ \A p \in Paths : file[p].key <= now
    /\ \A p \in DOMAIN tabs : tabs[p].key <= file[p].key
    /\ \A p \in DOMAIN bad : bad[p] <= file[p].key
    /\ \A h \in open : h.key <= file[h.path].key

\* No path has two verdicts, nor gets a second one when its file has been read.
Verdicts ==
    /\ OneVerdict
    /\ \A h \in open : h.path \notin DOMAIN orphan_logged

\* Under its key a loaded file is what was loaded.
TabTrue(p) ==
    p \in DOMAIN tabs /\ tabs[p].key = file[p].key =>
        \/ FileFit(p) /\ tabs[p].content = file[p].content
        \/ "samekey" \in excuses[p]

\* Under its key a file that failed is no good, or did so for a reason of its own.
BadTrue(p) ==
    p \in DOMAIN bad /\ bad[p] = file[p].key =>
        \/ ~FileFit(p)
        \/ IsUser(p) /\ file[p].content \in OverLimit
        \/ Excused(p, {"io", "untried", "orphan", "samekey"})

\* Under its key an open file is the one that was checked.
OpenTrue(h) ==
    h.key = file[h.path].key => \/ h.live /\ FileFit(h.path)
                                \/ "samekey" \in excuses[h.path]

-----------------------------------------------------------------------------
(* The inductive invariant, within a refresh.                              *)

\* The directory of p has been looked at.
Handled(p) ==
    \/ phase \in {"idle", "drop"}
    \/ phase = "spool" /\ p \notin Spool
    \/ phase = "cron.d" /\ p \in System

\* p is still to be considered, recorded, or read.
Pending(p) == p \in listed \cup unopened \/ \E h \in open : h.path = p

\* The directories are gone through one after the other.
Places == /\ \A p \in Paths : p \in seen \/ Pending(p) => Handled(p) /\ phase # "idle"
          /\ unopened \subseteq seen
          /\ unopened # {} => open = {}
          /\ \A h \in open : h.path \in seen

\* While nothing changes, an open file is the one of that name, and what could not
\* be opened is excused.
OpenNow == quiet => /\ \A h \in open : h.live /\ h.key = file[h.path].key
                    /\ \A p \in unopened : "call" \in excuses[p]

\* A path that is through is loaded if it should be, up to date if it is loaded,
\* and is going to be dropped only if there is a cause.
Refreshed(p) ==
    quiet /\ Handled(p) /\ ~Pending(p) =>
        /\ Loadable(p) => p \in DOMAIN tabs \/ excuses[p] # {}
        /\ p \in DOMAIN tabs => \/ tabs[p].key = file[p].key
                                \/ Excused(p, {"unlisted", "nss"})
                                \/ p \notin seen /\ phase # "idle"
        /\ p \in DOMAIN tabs /\ p \notin seen /\ phase # "idle" =>
              ~file[p].there \/ Excused(p, {"entry"})

\* What was loaded is loaded, or has been unloaded for a cause.
Kept(p) ==
    quiet /\ p \in before => p \in DOMAIN tabs \/ ~Loadable(p) \/ Excused(p, {"entry", "call", "io"})

Lasting == /\ TypeOK /\ Existing /\ KeysOld /\ Verdicts
           /\ \A p \in Paths : TabTrue(p) /\ BadTrue(p)
           /\ \A h \in open : OpenTrue(h)

Passing == /\ Places /\ OpenNow
           /\ \A p \in Paths : Refreshed(p) /\ Kept(p)

IInv == Lasting /\ Passing

-----------------------------------------------------------------------------
(* The operators.                                                          *)

\* The excuses there are.
LEMMA KindNames == /\ "unlisted" \in Kinds /\ "entry" \in Kinds /\ "nss" \in Kinds
                   /\ "call" \in Kinds /\ "untried" \in Kinds
                   /\ "io" \in Kinds /\ "orphan" \in Kinds /\ "samekey" \in Kinds
                   /\ RefreshKinds \subseteq Kinds
BY DEF Kinds, RefreshKinds

\* The paths of the directories are paths.
LEMMA PathSets == /\ System \subseteq Paths /\ CronD \subseteq Paths /\ Spool \subseteq Paths
                  /\ System \cap CronD = {} /\ System \cap Spool = {} /\ CronD \cap Spool = {}
                  /\ \A p \in Paths : p \in System \/ p \in CronD \/ p \in Spool
BY DatabaseAssumption DEF Paths

\* An excuse is added, for paths of its set that people write, and none is lost.
LEMMA ExcuseAdds ==
    ASSUME excuses \in [Paths -> SUBSET Kinds], NEW S, NEW k \in Kinds
    PROVE  /\ Excuse(S, k) \in [Paths -> SUBSET Kinds]
           /\ \A p \in Paths : /\ excuses[p] \subseteq Excuse(S, k)[p]
                               /\ p \in S /\ p \in host.paths => k \in Excuse(S, k)[p]
                               /\ p \notin S => Excuse(S, k)[p] = excuses[p]
BY DEF Excuse

\* What With, Without and Among make of a map.
LEMMA WithFacts ==
    ASSUME NEW f, NEW p, NEW v
    PROVE  /\ DOMAIN With(f, p, v) = DOMAIN f \cup {p}
           /\ With(f, p, v)[p] = v
           /\ \A x \in DOMAIN f : x # p => With(f, p, v)[x] = f[x]
BY DEF With

\* The domain shrinks.
LEMMA WithoutFacts ==
    ASSUME NEW f, NEW p
    PROVE  /\ DOMAIN Without(f, p) = DOMAIN f \ {p}
           /\ \A x \in DOMAIN f : x # p => Without(f, p)[x] = f[x]
BY DEF Without

\* What is not of interest is forgotten.
LEMMA AmongFacts ==
    ASSUME NEW f, NEW S
    PROVE  /\ DOMAIN Among(f, S) = DOMAIN f \cap S
           /\ \A x \in DOMAIN f \cap S : Among(f, S)[x] = f[x]
BY DEF Among

\* The empty sequence is the empty map.
LEMMA EmptyMap == DOMAIN << >> = {}
OBVIOUS

-----------------------------------------------------------------------------
(* The environment.                                                        *)

\* What a writer leaves is a version of the file.
LEMMA PublishStep ==
    ASSUME IInv, NEW p \in host.paths, NEW version \in Versions, NEW inPlace \in BOOLEAN,
           Publish(p, version, inPlace)
    PROVE  IInv'
<1>1. PICK k \in {now, now + 1} :
         /\ now' = k
         /\ file' = [file EXCEPT ![p] = [version EXCEPT !.key = k]]
         /\ excuses' = [excuses EXCEPT ![p] = IF k = file[p].key THEN @ \cup {"samekey"} ELSE {}]
  BY DEF Publish
<1>2. /\ UNCHANGED <<host, passwd, spool_secure, tabs, bad, orphan_logged, phase, listed, unopened, seen, before>>
      /\ quiet' = FALSE /\ changes < host.changes /\ changes' = changes + 1
      /\ open' = IF inPlace THEN open
                 ELSE {IF h.path = p /\ h.live
                       THEN [h EXCEPT !.live = FALSE, !.content = file[p].content]
                       ELSE h : h \in open}
  BY DEF Publish, mapVars
<1>3. /\ host.paths \subseteq Paths /\ p \in Paths /\ now \in Nat /\ k \in Nat /\ now <= k
      /\ file \in [Paths -> Versions] /\ excuses \in [Paths -> SUBSET Kinds]
  BY DatabaseAssumption DEF IInv, Lasting, TypeOK
<1>4. /\ file' \in [Paths -> Versions]
      /\ file'[p].key = k
      /\ \A q \in Paths : q # p => file'[q] = file[q]
  <2>1. [version EXCEPT !.key = k] \in Versions /\ [version EXCEPT !.key = k].key = k
    BY <1>3 DEF Versions
  <2>2. QED
    BY <1>1, <1>3, <2>1
<1>5. file[p].key \in Nat /\ file[p].key <= now
  BY <1>3 DEF IInv, Lasting, KeysOld, Versions
<1>6. /\ excuses' \in [Paths -> SUBSET Kinds]
      /\ k = file[p].key => "samekey" \in excuses'[p]
      /\ \A q \in Paths : q # p => excuses'[q] = excuses[q]
  BY <1>1, <1>3, KindNames
<1>7. ASSUME NEW g \in open'
      PROVE  \E h \in open : /\ g.path = h.path /\ g.key = h.key
                             /\ g \in [path : Paths, key : Nat, content : Contents, live : BOOLEAN]
                             /\ h.path # p => g = h
                             /\ inPlace => g = h
  <2>1. open \subseteq [path : Paths, key : Nat, content : Contents, live : BOOLEAN]
    BY DEF IInv, Lasting, TypeOK
  <2>2. file[p].content \in Contents
    BY <1>3 DEF Versions, Contents
  <2>3. CASE inPlace
    BY <1>2, <2>1, <2>3
  <2>4. CASE ~inPlace
    <3>1. PICK h \in open : g = IF h.path = p /\ h.live
                                THEN [h EXCEPT !.live = FALSE, !.content = file[p].content] ELSE h
      BY <1>2, <2>4
    <3>2. QED
      BY <2>1, <2>2, <2>4, <3>1
  <2>5. QED
    BY <2>3, <2>4
<1>8. \A g, h \in open' : g = h
  <2>1. \A g, h \in open : g = h
    BY DEF IInv, Lasting, TypeOK
  <2>2. CASE inPlace
    BY <1>2, <2>1, <2>2
  <2>3. CASE ~inPlace
    <3>1. SUFFICES ASSUME NEW g \in open', NEW h \in open' PROVE g = h
      OBVIOUS
    <3>2. PICK a \in open : g = IF a.path = p /\ a.live
                                THEN [a EXCEPT !.live = FALSE, !.content = file[p].content] ELSE a
      BY <1>2, <2>3
    <3>3. PICK b \in open : h = IF b.path = p /\ b.live
                                THEN [b EXCEPT !.live = FALSE, !.content = file[p].content] ELSE b
      BY <1>2, <2>3
    <3>4. a = b
      BY <2>1
    <3>5. QED
      BY <3>2, <3>3, <3>4
  <2>4. QED
    BY <2>2, <2>3
<1>9. TypeOK'
  <2>1. host \in Hosts /\ changes \in 0 .. host.changes /\ host.changes \in Nat
    BY DatabaseAssumption DEF IInv, Lasting, TypeOK
  <2>2. changes' \in 0 .. host'.changes
    <3>1. host' = host /\ changes < host.changes /\ changes' = changes + 1
      BY <1>2
    <3>2. QED
      BY <2>1, <3>1
  <2>3. open' \subseteq [path : Paths, key : Nat, content : Contents, live : BOOLEAN]
    BY <1>7
  <2>4. QED
    BY <1>1, <1>2, <1>3, <1>4, <1>6, <1>8, <2>2, <2>3 DEF IInv, Lasting, TypeOK
<1>10. Existing'
  BY <1>2, <1>4, <1>7 DEF IInv, Lasting, Existing
<1>11. KeysOld'
  <2>1. \A q \in Paths : file[q].key \in Nat /\ file[q].key <= now
    BY <1>3 DEF IInv, Lasting, KeysOld, Versions
  <2>2. \A q \in Paths : file'[q].key \in Nat /\ file[q].key <= file'[q].key /\ file'[q].key <= k
    BY <1>3, <1>4, <1>5, <2>1
  <2>3. /\ \A q \in DOMAIN tabs : q \in Paths /\ tabs[q].key \in Nat
        /\ \A q \in DOMAIN bad : q \in Paths /\ bad[q] \in Keys
        /\ \A h \in open : h.path \in Paths /\ h.key \in Nat
    BY DEF IInv, Lasting, TypeOK, Entries
  <2>4. /\ \A q \in DOMAIN tabs : tabs[q].key <= file'[q].key
        /\ \A q \in DOMAIN bad : bad[q] <= file'[q].key
        /\ \A h \in open : h.key <= file'[h.path].key
    BY <2>1, <2>2, <2>3 DEF IInv, Lasting, KeysOld, Keys, Epoch
  <2>5. QED
    BY <1>1, <1>2, <1>7, <2>2, <2>4 DEF KeysOld
<1>12. Verdicts'
  BY <1>2, <1>7 DEF IInv, Lasting, Verdicts, OneVerdict
<1>13. ASSUME NEW q \in Paths PROVE TabTrue(q)' /\ BadTrue(q)'
  <2>1. CASE q # p
    <3>1. file'[q] = file[q] /\ excuses'[q] = excuses[q] /\ TabTrue(q) /\ BadTrue(q)
      BY <1>4, <1>6, <2>1 DEF IInv, Lasting
    <3>2. QED
      BY <1>2, <3>1 DEF TabTrue, BadTrue, FileFit, Excused
  <2>2. CASE q = p
    <3>1. CASE k = file[p].key
      BY <1>6, <2>2, <3>1 DEF TabTrue, BadTrue, Excused
    <3>2. CASE k # file[p].key
      <4>1. file[p].key < k
        BY <1>3, <1>5, <3>2
      <4>2. /\ p \in DOMAIN tabs => tabs[p].key \in Nat /\ tabs[p].key <= file[p].key
            /\ p \in DOMAIN bad => bad[p] \in Int /\ bad[p] <= file[p].key
        BY DEF IInv, Lasting, TypeOK, Entries, KeysOld, Keys, Epoch
      <4>3. (p \in DOMAIN tabs => tabs[p].key # k) /\ (p \in DOMAIN bad => bad[p] # k)
        BY <1>3, <1>5, <4>1, <4>2
      <4>4. QED
        BY <1>2, <1>4, <2>2, <4>3 DEF TabTrue, BadTrue
    <3>3. QED
      BY <3>1, <3>2
  <2>3. QED
    BY <2>1, <2>2
<1>14. ASSUME NEW g \in open' PROVE OpenTrue(g)'
  <2>1. PICK h \in open : /\ g.path = h.path /\ g.key = h.key /\ h.path \in Paths
                          /\ h.path # p => g = h
    BY <1>7 DEF IInv, Lasting, TypeOK
  <2>2. CASE h.path # p
    <3>1. g = h /\ file'[h.path] = file[h.path] /\ excuses'[h.path] = excuses[h.path] /\ OpenTrue(h)
      BY <1>4, <1>6, <2>1, <2>2 DEF IInv, Lasting
    <3>2. QED
      BY <3>1 DEF OpenTrue, FileFit
  <2>3. CASE h.path = p
    <3>1. h.key \in Nat /\ h.key <= file[p].key
      BY <2>3 DEF IInv, Lasting, TypeOK, KeysOld
    <3>2. h.key = k => k = file[p].key
      BY <1>3, <1>5, <3>1
    <3>3. QED
      BY <1>4, <1>6, <2>1, <2>3, <3>2 DEF OpenTrue
  <2>4. QED
    BY <2>2, <2>3
<1>15. Passing'
  <2>1. Places'
    BY <1>2, <1>7 DEF IInv, Passing, Places, Pending, Handled
  <2>2. QED
    BY <1>2, <2>1 DEF Passing, OpenNow, Refreshed, Kept
<1>16. QED
  BY <1>9, <1>10, <1>11, <1>12, <1>13, <1>14, <1>15 DEF IInv, Lasting

\* Users and modes change no file.
LEMMA AdministrateStep == ASSUME IInv, Administrate PROVE IInv'
<1>1. /\ UNCHANGED <<host, file, now, tabs, bad, orphan_logged, phase, listed, unopened, open, seen, before, excuses>>
      /\ quiet' = FALSE /\ changes < host.changes /\ changes' = changes + 1
      /\ passwd' \subseteq Spool /\ spool_secure' \in BOOLEAN
  BY DEF Administrate, mapVars, scanVars, IInv, Lasting, TypeOK
<1>2. TypeOK'
  <2>1. host \in Hosts /\ changes \in 0 .. host.changes /\ host.changes \in Nat
    BY DatabaseAssumption DEF IInv, Lasting, TypeOK
  <2>2. changes' \in 0 .. host'.changes
    <3>1. host' = host /\ changes < host.changes /\ changes' = changes + 1
      BY <1>1
    <3>2. QED
      BY <2>1, <3>1
  <2>3. QED
    BY <1>1, <2>2 DEF IInv, Lasting, TypeOK
<1>3. Existing' /\ KeysOld' /\ Verdicts'
  BY <1>1 DEF IInv, Lasting, Existing, KeysOld, Verdicts, OneVerdict
<1>4. ASSUME NEW q \in Paths PROVE TabTrue(q)' /\ BadTrue(q)'
  BY <1>1 DEF IInv, Lasting, TabTrue, BadTrue, FileFit, Excused
<1>5. ASSUME NEW h \in open' PROVE OpenTrue(h)'
  BY <1>1 DEF IInv, Lasting, OpenTrue, FileFit
<1>6. Passing'
  BY <1>1 DEF IInv, Passing, Places, Pending, Handled, OpenNow, Refreshed, Kept
<1>7. QED
  BY <1>2, <1>3, <1>4, <1>5, <1>6 DEF IInv, Lasting

\* The environment preserves the invariant.
LEMMA EnvironmentStep == ASSUME IInv, Environment PROVE IInv'
<1>1. CASE Administrate
  BY <1>1, AdministrateStep
<1>2. ASSUME NEW p \in host.paths, Replace(p) \/ Remove(p) \/ WriteInPlace(p) PROVE IInv'
  <2>1. file[p] \in Versions
    BY DatabaseAssumption DEF IInv, Lasting, TypeOK
  <2>2. CASE Replace(p)
    <3>1. PICK s \in Shapes : Publish(p, Version(TRUE, s), FALSE)
      BY <2>2 DEF Replace
    <3>2. Version(TRUE, s) \in Versions
      BY DatabaseAssumption DEF Version, Versions
    <3>3. QED
      BY <3>1, <3>2, PublishStep
  <2>3. CASE Remove(p)
    <3>1. [file[p] EXCEPT !.there = FALSE] \in Versions
      BY <2>1 DEF Versions
    <3>2. QED
      BY <2>3, <3>1, PublishStep DEF Remove
  <2>4. CASE WriteInPlace(p)
    <3>1. PICK s \in Shapes : Publish(p, [file[p] EXCEPT !.content = s.content], TRUE)
      BY <2>4 DEF WriteInPlace
    <3>2. [file[p] EXCEPT !.content = s.content] \in Versions
      BY <2>1 DEF Versions
    <3>3. QED
      BY <3>1, <3>2, PublishStep
  <2>5. QED
    BY <1>2, <2>2, <2>3, <2>4
<1>3. QED
  BY <1>1, <1>2 DEF Environment

-----------------------------------------------------------------------------
(* A refresh.                                                              *)

\* It begins with nothing handled; what it excuses for itself is forgotten.
LEMMA BeginStep == ASSUME IInv, StartRefresh \/ ReloadAll PROVE IInv'
<1>1. /\ UNCHANGED <<host, file, now, passwd, spool_secure, changes, listed, unopened, open, seen>>
      /\ phase = "idle" /\ phase' = "system" /\ quiet' = TRUE
      /\ excuses' = [p \in Paths |-> excuses[p] \ RefreshKinds]
  BY DEF StartRefresh, ReloadAll, Begin, envVars
<1>2. \/ before' = DOMAIN tabs /\ UNCHANGED <<tabs, bad, orphan_logged>>
      \/ before' = {} /\ tabs' = << >> /\ bad' = << >> /\ orphan_logged' = << >>
  BY DEF StartRefresh, ReloadAll, Begin, mapVars
<1>3. /\ DOMAIN tabs' \subseteq DOMAIN tabs /\ \A p \in DOMAIN tabs' : tabs'[p] = tabs[p]
      /\ DOMAIN bad' \subseteq DOMAIN bad /\ \A p \in DOMAIN bad' : bad'[p] = bad[p]
      /\ DOMAIN orphan_logged' \subseteq DOMAIN orphan_logged
      /\ \A p \in DOMAIN orphan_logged' : orphan_logged'[p] = orphan_logged[p]
      /\ before' \subseteq DOMAIN tabs'
  <2>1. CASE before' = DOMAIN tabs /\ UNCHANGED <<tabs, bad, orphan_logged>>
    BY <2>1
  <2>2. CASE before' = {} /\ tabs' = << >> /\ bad' = << >> /\ orphan_logged' = << >>
    BY <2>2, EmptyMap
  <2>3. QED
    BY <1>2, <2>1, <2>2
<1>4. /\ excuses' \in [Paths -> SUBSET Kinds]
      /\ \A p \in Paths : \A k \in {"io", "untried", "orphan", "samekey"} : k \in excuses[p] => k \in excuses'[p]
  BY <1>1 DEF IInv, Lasting, TypeOK, RefreshKinds
<1>5. \A p \in Paths : p \notin seen /\ ~Pending(p)
  BY <1>1 DEF IInv, Passing, Places
<1>6. open = {} /\ unopened = {}
  <2>1. unopened \subseteq Paths /\ \A h \in open : h.path \in Paths
    BY DEF IInv, Lasting, TypeOK
  <2>2. QED
    BY <1>5, <2>1 DEF Pending
<1>7. TypeOK'
  BY <1>1, <1>3, <1>4 DEF IInv, Lasting, TypeOK
<1>8. Existing' /\ KeysOld' /\ Verdicts'
  BY <1>1, <1>3 DEF IInv, Lasting, Existing, KeysOld, Verdicts, OneVerdict
<1>9. ASSUME NEW q \in Paths PROVE TabTrue(q)' /\ BadTrue(q)'
  <2>1. TabTrue(q) /\ BadTrue(q)
    BY DEF IInv, Lasting
  <2>2. QED
    BY <1>1, <1>3, <1>4, <2>1 DEF TabTrue, BadTrue, FileFit, Excused
<1>10. Passing'
  <2>1. \A q \in Paths : ~Handled(q)' /\ q \notin seen' /\ ~Pending(q)'
    BY <1>1, <1>5 DEF Handled, Pending
  <2>2. QED
    BY <1>1, <1>3, <1>6, <2>1 DEF Passing, Places, OpenNow, Refreshed, Kept
<1>11. QED
  BY <1>1, <1>6, <1>7, <1>8, <1>9, <1>10 DEF IInv, Lasting

\* p, of the directory that is scanned, is to be considered, or is kept, or there
\* is a cause to drop it.
Looked(p) ==
    \/ p \in listed'
    \/ /\ p \in host.paths => "unlisted" \in excuses'[p]
       /\ p \in DOMAIN tabs => p \in seen'
    \/ /\ p \notin seen'
       /\ ~file[p].there \/ "entry" \in excuses'[p]

\* One directory is looked at.
LEMMA ScanStep ==
    ASSUME IInv, NEW dir \in SUBSET Paths, Considered,
           UNCHANGED <<envVars, mapVars, unopened, open, before, quiet>>,
           phase # "idle", phase' \in {"cron.d", "spool", "drop"},
           \A p \in Paths : Handled(p)' <=> Handled(p) \/ p \in dir,
           \A p \in dir : ~Handled(p),
           listed' \subseteq dir, seen \subseteq seen', seen' \subseteq seen \cup dir,
           excuses' \in [Paths -> SUBSET Kinds],
           \A p \in Paths : excuses[p] \subseteq excuses'[p],
           \A p \in dir : Looked(p)
    PROVE  IInv'
<1>1. /\ UNCHANGED <<host, file, now, passwd, spool_secure, changes, tabs, bad, orphan_logged, before, quiet>>
      /\ listed = {} /\ unopened = {} /\ open = {} /\ unopened' = {} /\ open' = {}
  BY DEF envVars, mapVars, Considered
<1>2. TypeOK'
  BY <1>1 DEF IInv, Lasting, TypeOK
<1>3. Existing' /\ KeysOld' /\ Verdicts'
  BY <1>1 DEF IInv, Lasting, Existing, KeysOld, Verdicts, OneVerdict
<1>4. ASSUME NEW q \in Paths PROVE TabTrue(q)' /\ BadTrue(q)'
  <2>1. TabTrue(q) /\ BadTrue(q)
    BY DEF IInv, Lasting
  <2>2. QED
    BY <1>1, <2>1 DEF TabTrue, BadTrue, FileFit, Excused
<1>5. Places' /\ OpenNow'
  <2>1. \A q \in Paths : ~Pending(q) /\ (Pending(q)' => q \in dir)
    BY <1>1 DEF Pending
  <2>2. \A q \in Paths : q \in seen => Handled(q)
    BY DEF IInv, Passing, Places
  <2>3. QED
    BY <1>1, <2>1, <2>2 DEF Places, OpenNow
<1>6. ASSUME NEW q \in Paths PROVE Kept(q)'
  BY <1>1 DEF IInv, Passing, Kept, Loadable, FileFit, Excused
<1>7. ASSUME NEW q \in Paths PROVE Refreshed(q)'
  <2>1. CASE q \in dir
    <3>1. SUFFICES ASSUME quiet, q \notin listed'
                   PROVE  /\ Loadable(q) => q \in DOMAIN tabs \/ excuses'[q] # {}
                          /\ q \in DOMAIN tabs => \/ tabs[q].key = file[q].key
                                                  \/ excuses'[q] \cap {"unlisted", "nss"} # {}
                                                  \/ q \notin seen'
                          /\ q \in DOMAIN tabs /\ q \notin seen' =>
                                ~file[q].there \/ excuses'[q] \cap {"entry"} # {}
      BY <1>1 DEF Refreshed, Pending, Loadable, FileFit, Excused
    <3>2. file[q].there \/ q \in DOMAIN tabs => q \in host.paths
      BY DEF IInv, Lasting, Existing
    <3>3. QED
      BY <2>1, <3>1, <3>2 DEF Looked, Loadable, FileFit
  <2>2. CASE q \notin dir
    <3>1. Refreshed(q) /\ ~Pending(q) /\ (q \in seen' <=> q \in seen)
      BY <1>1, <2>2 DEF IInv, Passing, Pending
    <3>2. QED
      BY <1>1, <2>2, <3>1 DEF Refreshed, Loadable, FileFit, Excused
  <2>3. QED
    BY <2>1, <2>2
<1>8. QED
  BY <1>1, <1>2, <1>3, <1>4, <1>5, <1>6, <1>7 DEF IInv, Lasting, Passing

\* What is loaded from a directory that can't be read is kept.
LEMMA KeepLooks ==
    ASSUME IInv, NEW dir \in SUBSET Paths, Keep(dir), \A p \in dir : ~Handled(p)
    PROVE  /\ listed' \subseteq dir /\ seen \subseteq seen' /\ seen' \subseteq seen \cup dir
           /\ excuses' \in [Paths -> SUBSET Kinds]
           /\ \A p \in Paths : excuses[p] \subseteq excuses'[p]
           /\ \A p \in dir : Looked(p)
<1>1. excuses \in [Paths -> SUBSET Kinds] /\ excuses' = Excuse(dir, "unlisted")
  BY DEF IInv, Lasting, TypeOK, Keep
<1>2. QED
  BY <1>1, ExcuseAdds, KindNames DEF Keep, Looked

\* What a scan that succeeds excuses and lists.
LEMMA ScanLooks ==
    ASSUME IInv, NEW dir \in SUBSET Paths, scan_dir(dir), \A p \in dir : ~Handled(p)
    PROVE  /\ listed' \subseteq dir /\ seen \subseteq seen' /\ seen' \subseteq seen \cup dir
           /\ excuses' \in [Paths -> SUBSET Kinds]
           /\ \A p \in Paths : excuses[p] \subseteq excuses'[p]
           /\ \A p \in dir : Looked(p)
<1>1. CASE Keep(dir)
  BY <1>1, KeepLooks
<1>2. ASSUME NEW unread \in SUBSET {p \in dir : file[p].there},
             listed' = {p \in dir : file[p].there} \ unread,
             excuses' = Excuse(unread, "entry"), UNCHANGED seen
      PROVE  /\ listed' \subseteq dir /\ seen \subseteq seen' /\ seen' \subseteq seen \cup dir
             /\ excuses' \in [Paths -> SUBSET Kinds]
             /\ \A p \in Paths : excuses[p] \subseteq excuses'[p]
             /\ \A p \in dir : Looked(p)
  <2>1. excuses \in [Paths -> SUBSET Kinds]
    BY DEF IInv, Lasting, TypeOK
  <2>2. \A p \in dir : p \notin seen /\ (file[p].there => p \in host.paths)
    BY DEF IInv, Lasting, Existing, Passing, Places
  <2>3. QED
    BY <1>2, <2>1, <2>2, ExcuseAdds, KindNames DEF Looked
<1>3. QED
  BY <1>1, <1>2 DEF scan_dir

\* Each directory is looked at in its turn.
LEMMA DirectoryStep == ASSUME IInv, StatSystem \/ ScanCronD \/ ScanSpool PROVE IInv'
<1>1. CASE StatSystem
  <2>1. /\ phase = "system" /\ phase' = "cron.d"
        /\ UNCHANGED <<envVars, mapVars, unopened, open, seen, before, quiet>>
        /\ \/ listed' = {p \in System : file[p].there} /\ UNCHANGED excuses
           \/ listed' = {} /\ excuses' = Excuse(System, "entry")
    BY <1>1 DEF StatSystem
  <2>2. \A p \in Paths : ~Handled(p) /\ (Handled(p)' <=> p \in System)
    BY <2>1 DEF Handled
  <2>3. \A p \in Paths : p \notin seen /\ ~Pending(p)
    BY <2>2 DEF IInv, Passing, Places
  <2>4. Considered /\ excuses \in [Paths -> SUBSET Kinds]
    BY <2>3 DEF IInv, Lasting, TypeOK, Pending, Considered
  <2>5. \A p \in System : file[p].there => p \in host.paths
    BY PathSets DEF IInv, Lasting, Existing
  <2>6. /\ listed' \subseteq System /\ excuses' \in [Paths -> SUBSET Kinds]
        /\ \A p \in Paths : excuses[p] \subseteq excuses'[p]
        /\ \A p \in System : Looked(p)
    <3>1. CASE listed' = {p \in System : file[p].there} /\ UNCHANGED excuses
      BY <2>1, <2>3, <2>4, <3>1, PathSets DEF Looked
    <3>2. CASE listed' = {} /\ excuses' = Excuse(System, "entry")
      BY <2>1, <2>3, <2>4, <2>5, <3>2, PathSets, ExcuseAdds, KindNames DEF Looked
    <3>3. QED
      BY <2>1, <3>1, <3>2
  <2>7. System \in SUBSET Paths /\ seen' = seen
    BY <2>1, PathSets
  <2>8. QED
    BY <2>1, <2>2, <2>4, <2>6, <2>7, ScanStep
<1>2. CASE ScanCronD
  <2>1. /\ phase = "cron.d" /\ phase' = "spool" /\ Considered /\ scan_dir(CronD)
        /\ UNCHANGED <<envVars, mapVars, unopened, open, before, quiet>>
    BY <1>2 DEF ScanCronD
  <2>2. /\ \A p \in CronD : ~Handled(p)
        /\ \A p \in Paths : Handled(p)' <=> Handled(p) \/ p \in CronD
    BY <2>1, PathSets DEF Handled
  <2>3. CronD \in SUBSET Paths
    BY PathSets
  <2>4. QED
    BY <2>1, <2>2, <2>3, ScanLooks, ScanStep
<1>3. CASE ScanSpool
  <2>1. /\ phase = "spool" /\ phase' = "drop" /\ Considered
        /\ scan_dir(Spool) \/ Keep(Spool)
        /\ UNCHANGED <<envVars, mapVars, unopened, open, before, quiet>>
    BY <1>3 DEF ScanSpool
  <2>2. /\ \A p \in Spool : ~Handled(p)
        /\ \A p \in Paths : Handled(p)' <=> Handled(p) \/ p \in Spool
    BY <2>1 DEF Handled
  <2>3. Spool \in SUBSET Paths
    BY PathSets
  <2>4. QED
    BY <2>1, <2>2, <2>3, ScanLooks, KeepLooks, ScanStep
<1>4. QED
  BY <1>1, <1>2, <1>3

\* Only what nothing was found of is dropped.
LEMMA DropStep == ASSUME IInv, DropVanished PROVE IInv'
<1>1. /\ UNCHANGED <<host, file, now, passwd, spool_secure, changes, listed, unopened, open, before, quiet, excuses>>
      /\ phase = "drop" /\ phase' = "idle" /\ listed = {} /\ unopened = {} /\ open = {} /\ seen' = {}
      /\ tabs' = Among(tabs, seen) /\ bad' = Among(bad, seen) /\ orphan_logged' = Among(orphan_logged, seen)
  BY DEF DropVanished, Considered, envVars, histVars
<1>2. /\ DOMAIN tabs' = DOMAIN tabs \cap seen /\ \A p \in DOMAIN tabs' : tabs'[p] = tabs[p]
      /\ DOMAIN bad' = DOMAIN bad \cap seen /\ \A p \in DOMAIN bad' : bad'[p] = bad[p]
      /\ DOMAIN orphan_logged' = DOMAIN orphan_logged \cap seen
      /\ \A p \in DOMAIN orphan_logged' : orphan_logged'[p] = orphan_logged[p]
  BY <1>1, AmongFacts
<1>3. TypeOK'
  BY <1>1, <1>2 DEF IInv, Lasting, TypeOK
<1>4. Existing' /\ KeysOld' /\ Verdicts'
  BY <1>1, <1>2 DEF IInv, Lasting, Existing, KeysOld, Verdicts, OneVerdict
<1>5. ASSUME NEW q \in Paths PROVE TabTrue(q)' /\ BadTrue(q)'
  <2>1. TabTrue(q) /\ BadTrue(q)
    BY DEF IInv, Lasting
  <2>2. QED
    BY <1>1, <1>2, <2>1 DEF TabTrue, BadTrue, FileFit, Excused
<1>6. ASSUME NEW q \in Paths PROVE Refreshed(q)' /\ Kept(q)'
  <2>1. Handled(q) /\ ~Pending(q)
    BY <1>1 DEF Handled, Pending
  <2>2. Refreshed(q) /\ Kept(q)
    BY DEF IInv, Passing
  <2>3. QED
    BY <1>1, <1>2, <2>1, <2>2 DEF Refreshed, Kept, Loadable, FileFit, Excused
<1>7. Places' /\ OpenNow'
  BY <1>1 DEF Places, Pending, OpenNow
<1>8. QED
  BY <1>1, <1>3, <1>4, <1>5, <1>6, <1>7 DEF IInv, Lasting, Passing

\* p is through: judged by Take, or by what follows it.
Judged(p) ==
    /\ UNCHANGED <<envVars, phase, before, quiet>>
    /\ open = {} /\ open' = {}
    /\ p \in listed \cup unopened
    /\ listed' \subseteq listed /\ listed \subseteq listed' \cup {p}
    /\ unopened' = {} /\ unopened \subseteq {p}
    /\ seen' = seen \cup {p}

\* A file is considered, and not read: it is unloaded or left as it was.
LEMMA JudgedStep ==
    ASSUME IInv, NEW p \in Paths, Judged(p), NEW key \in {file[p].key, Epoch},
           excuses' \in [Paths -> SUBSET Kinds],
           \A q \in Paths : excuses[q] \subseteq excuses'[q],
           tabs' = tabs \/ tabs' = Without(tabs, p),
           bad' = bad \/ (bad' = With(bad, p, key) /\ tabs' = Without(tabs, p)),
           \/ orphan_logged' = orphan_logged
           \/ /\ orphan_logged' = With(orphan_logged, p, file[p].key)
              /\ p \in Spool /\ tabs' = Without(tabs, p),
           BadTrue(p)',
           quiet /\ Loadable(p) => p \in DOMAIN tabs' \/ excuses'[p] # {},
           p \in DOMAIN tabs' => \/ tabs'[p].key = file[p].key
                                 \/ excuses'[p] \cap {"unlisted", "nss"} # {},
           quiet /\ p \in DOMAIN tabs \ DOMAIN tabs' => \/ ~Loadable(p)
                                                        \/ excuses'[p] \cap {"entry", "call", "io"} # {}
    PROVE  IInv'
<1>1. /\ UNCHANGED <<host, file, now, passwd, spool_secure, changes, phase, before, quiet>>
      /\ open = {} /\ open' = {}
      /\ p \in listed \cup unopened /\ listed' \subseteq listed /\ listed \subseteq listed' \cup {p}
      /\ unopened' = {} /\ unopened \subseteq {p} /\ seen' = seen \cup {p}
  BY DEF Judged, envVars
<1>2. /\ DOMAIN tabs' \subseteq DOMAIN tabs /\ \A q \in DOMAIN tabs' : tabs'[q] = tabs[q]
      /\ \A q \in DOMAIN tabs : q # p => q \in DOMAIN tabs'
  <2>1. CASE tabs' = tabs
    BY <2>1
  <2>2. CASE tabs' = Without(tabs, p)
    BY <2>2 DEF Without
  <2>3. QED
    BY <2>1, <2>2
<1>3. /\ DOMAIN bad' \subseteq DOMAIN bad \cup {p}
      /\ \A q \in DOMAIN bad' : q # p => q \in DOMAIN bad /\ bad'[q] = bad[q]
      /\ p \in DOMAIN bad' => \/ p \in DOMAIN bad /\ bad'[p] = bad[p]
                              \/ bad'[p] = key /\ p \notin DOMAIN tabs'
  <2>1. CASE bad' = bad
    BY <2>1
  <2>2. CASE bad' = With(bad, p, key) /\ tabs' = Without(tabs, p)
    BY <2>2 DEF With, Without
  <2>3. QED
    BY <2>1, <2>2
<1>4. /\ DOMAIN orphan_logged' \subseteq DOMAIN orphan_logged \cup ({p} \cap Spool)
      /\ \A q \in DOMAIN orphan_logged' : q # p => q \in DOMAIN orphan_logged
                                                   /\ orphan_logged'[q] = orphan_logged[q]
      /\ p \in DOMAIN orphan_logged' =>
            \/ p \in DOMAIN orphan_logged /\ orphan_logged'[p] = orphan_logged[p]
            \/ orphan_logged'[p] = file[p].key /\ p \notin DOMAIN tabs'
  <2>1. CASE orphan_logged' = orphan_logged
    BY <2>1
  <2>2. CASE /\ orphan_logged' = With(orphan_logged, p, file[p].key)
             /\ p \in Spool /\ tabs' = Without(tabs, p)
    BY <2>2 DEF With, Without
  <2>3. QED
    BY <2>1, <2>2
<1>5. file[p].key \in Nat /\ key \in Keys /\ key <= file[p].key
  <2>1. file[p].key \in Nat
    BY DEF IInv, Lasting, TypeOK, Versions
  <2>2. QED
    BY <2>1 DEF Keys, Epoch
<1>6. TypeOK'
  <2>1. /\ DOMAIN tabs' \subseteq Paths /\ \A q \in DOMAIN tabs' : tabs'[q] \in Entries
        /\ DOMAIN bad' \subseteq Paths /\ \A q \in DOMAIN bad' : bad'[q] \in Keys
    BY <1>2, <1>3, <1>5 DEF IInv, Lasting, TypeOK
  <2>2. /\ DOMAIN orphan_logged' \subseteq Spool
        /\ \A q \in DOMAIN orphan_logged' : orphan_logged'[q] \in Nat
    BY <1>4, <1>5 DEF IInv, Lasting, TypeOK
  <2>3. QED
    BY <1>1, <2>1, <2>2 DEF IInv, Lasting, TypeOK
<1>7. Existing' /\ KeysOld'
  <2>1. Existing /\ KeysOld
    BY DEF IInv, Lasting
  <2>2. QED
    BY <1>1, <1>2, <1>3, <1>5, <2>1 DEF Existing, KeysOld
<1>8. Verdicts'
  BY <1>1, <1>2, <1>3, <1>4 DEF IInv, Lasting, Verdicts, OneVerdict
<1>9. ASSUME NEW q \in Paths PROVE TabTrue(q)' /\ BadTrue(q)'
  <2>1. TabTrue(q) /\ BadTrue(q)
    BY DEF IInv, Lasting
  <2>2. TabTrue(q)'
    BY <1>1, <1>2, <2>1 DEF TabTrue, FileFit
  <2>3. BadTrue(q)'
    <3>1. CASE q = p
      BY <3>1
    <3>2. CASE q # p
      BY <1>1, <1>3, <2>1, <3>2 DEF BadTrue, FileFit, Excused
    <3>3. QED
      BY <3>1, <3>2
  <2>4. QED
    BY <2>2, <2>3
<1>10. Places' /\ OpenNow'
  BY <1>1 DEF IInv, Passing, Places, Pending, Handled, OpenNow
<1>11. ASSUME NEW q \in Paths PROVE Kept(q)'
  <2>1. Kept(q)
    BY DEF IInv, Passing
  <2>2. CASE q \in DOMAIN tabs \ DOMAIN tabs'
    <3>1. q = p
      BY <1>2, <2>2
    <3>2. QED
      BY <1>1, <2>2, <3>1 DEF Kept, Loadable, FileFit, Excused
  <2>3. CASE q \notin DOMAIN tabs \ DOMAIN tabs'
    BY <1>1, <2>1, <2>3 DEF Kept, Loadable, FileFit, Excused
  <2>4. QED
    BY <2>2, <2>3
<1>12. ASSUME NEW q \in Paths PROVE Refreshed(q)'
  <2>1. CASE q = p
    <3>1. p \in seen'
      BY <1>1
    <3>2. QED
      BY <1>1, <2>1, <3>1 DEF Refreshed, Loadable, FileFit, Excused
  <2>2. CASE q # p
    <3>1. /\ Refreshed(q) /\ (Pending(q)' <=> Pending(q)) /\ (q \in seen' <=> q \in seen)
          /\ q \in DOMAIN tabs' <=> q \in DOMAIN tabs
      BY <1>1, <1>2, <2>2 DEF IInv, Passing, Pending
    <3>2. QED
      BY <1>1, <1>2, <3>1 DEF Refreshed, Handled, Loadable, FileFit, Excused
  <2>3. QED
    BY <2>1, <2>2
<1>13. \A h \in open' : OpenTrue(h)'
  <2>1. \A h \in open : OpenTrue(h) /\ h.path \in Paths
    BY DEF IInv, Lasting, TypeOK
  <2>2. QED
    BY <1>1, <2>1 DEF OpenTrue, FileFit
<1>14. QED
  BY <1>6, <1>7, <1>8, <1>9, <1>10, <1>11, <1>12, <1>13 DEF IInv, Lasting, Passing

\* The cases of consider that do not read the file.
LEMMA ConsiderStep ==
    ASSUME IInv, NEW p \in Paths,
           \/ Vanished(p) \/ StatFails(p) \/ Unchanged(p) \/ LookupFails(p) \/ Insecure(p) \/ Orphan(p)
    PROVE  IInv'
<1>1. /\ excuses \in [Paths -> SUBSET Kinds] /\ BadTrue(p)
      /\ file[p].there => p \in host.paths
      /\ file[p].uid \in Uids /\ file[p].fault \in Faults
  BY DEF IInv, Lasting, TypeOK, Existing, Versions
<1>2. Judged(p) /\ file' = file /\ passwd' = passwd
  <2>1. Take(p) /\ UNCHANGED <<unopened, open>>
    BY DEF Vanished, StatFails, Unchanged, LookupFails, Insecure, Orphan
  <2>2. QED
    BY <2>1 DEF Take, Judged, envVars
<1>3. file' = file /\ passwd' = passwd /\ file[p].key \in {file[p].key, Epoch}
  BY <1>2
<1>4. CASE Vanished(p)
  <2>1. /\ tabs' = Without(tabs, p) /\ bad' = bad /\ orphan_logged' = orphan_logged
        /\ excuses' = excuses /\ ~file[p].there
    BY <1>3, <1>4 DEF Vanished
  <2>2. p \notin DOMAIN tabs' /\ ~Loadable(p) /\ BadTrue(p)'
    BY <1>3, <2>1, WithoutFacts DEF Loadable, FileFit, BadTrue
  <2>3. QED
    BY <1>1, <1>2, <1>3, <2>1, <2>2, JudgedStep
<1>5. CASE StatFails(p)
  <2>1. /\ tabs' = Without(tabs, p) /\ bad' = bad /\ orphan_logged' = orphan_logged
        /\ excuses' = Excuse({p}, "call") /\ file[p].there
    BY <1>5 DEF StatFails
  <2>2. /\ excuses' \in [Paths -> SUBSET Kinds] /\ "call" \in excuses'[p]
        /\ \A q \in Paths : excuses[q] \subseteq excuses'[q]
    BY <1>1, <2>1, ExcuseAdds, KindNames
  <2>3. p \notin DOMAIN tabs' /\ BadTrue(p)'
    BY <1>1, <1>3, <2>1, <2>2, WithoutFacts DEF BadTrue, FileFit, Excused
  <2>4. QED
    BY <1>2, <1>3, <2>1, <2>2, <2>3, JudgedStep
<1>6. CASE Unchanged(p)
  <2>1. /\ tabs' = tabs /\ bad' = bad /\ orphan_logged' = orphan_logged
        /\ excuses' = excuses /\ Known(p)
    BY <1>3, <1>6 DEF Unchanged, mapVars
  <2>2. p \in DOMAIN tabs => tabs[p].key = file[p].key
    BY <2>1 DEF Known, IInv, Lasting, Verdicts, OneVerdict
  <2>3. Loadable(p) => p \in DOMAIN tabs \/ excuses[p] # {}
    BY <1>1, <2>1 DEF Known, BadTrue, Loadable, Excused
  <2>4. BadTrue(p)'
    BY <1>1, <1>3, <2>1 DEF BadTrue, FileFit, Excused
  <2>5. QED
    BY <1>1, <1>2, <1>3, <2>1, <2>2, <2>3, <2>4, JudgedStep
<1>7. CASE LookupFails(p)
  <2>1. /\ tabs' = tabs /\ bad' = bad /\ orphan_logged' = orphan_logged
        /\ excuses' = Excuse({p}, "nss") /\ file[p].there
    BY <1>3, <1>7 DEF LookupFails, mapVars
  <2>2. /\ excuses' \in [Paths -> SUBSET Kinds] /\ "nss" \in excuses'[p]
        /\ \A q \in Paths : excuses[q] \subseteq excuses'[q]
    BY <1>1, <2>1, ExcuseAdds, KindNames
  <2>3. BadTrue(p)'
    BY <1>1, <1>3, <2>1, <2>2 DEF BadTrue, FileFit, Excused
  <2>4. QED
    BY <1>2, <1>3, <2>1, <2>2, <2>3, JudgedStep
<1>8. CASE Insecure(p)
  <2>1. /\ tabs' = Without(tabs, p) /\ bad' = With(bad, p, file[p].key) /\ orphan_logged' = orphan_logged
        /\ file[p].there /\ ~permissive /\ ~check_file_security(p)
        /\ excuses' = Excuse(IF p \in passwd THEN {} ELSE {p} \cap Spool, "orphan")
    BY <1>3, <1>8 DEF Insecure, Fail, OrphanExcuse
  <2>2. /\ excuses' \in [Paths -> SUBSET Kinds]
        /\ p \in Spool \ passwd => "orphan" \in excuses'[p]
        /\ \A q \in Paths : excuses[q] \subseteq excuses'[q]
    BY <1>1, <2>1, ExcuseAdds, KindNames
  <2>3. ~Loadable(p)
    BY <2>1 DEF check_file_security, OwnerOk, Loadable, FileFit
  <2>4. FileFit(p) => p \in Spool \ passwd
    BY <2>1 DEF check_file_security, OwnerOk, FileFit, IsUser
  <2>5. p \notin DOMAIN tabs' /\ BadTrue(p)'
    <3>1. p \notin DOMAIN tabs'
      BY <2>1 DEF Without
    <3>2. FileFit(p)' => FileFit(p)
      BY <1>3 DEF FileFit
    <3>3. FileFit(p) => "orphan" \in excuses'[p]
      BY <2>2, <2>4
    <3>4. QED
      BY <3>1, <3>2, <3>3 DEF BadTrue, Excused
  <2>6. QED
    BY <1>2, <1>3, <2>1, <2>2, <2>3, <2>5, JudgedStep
<1>9. CASE Orphan(p)
  <2>1. /\ tabs' = Without(tabs, p) /\ bad' = bad /\ orphan_logged' = With(orphan_logged, p, file[p].key)
        /\ p \in Spool /\ p \notin passwd
        /\ excuses' = Excuse(IF p \in passwd THEN {} ELSE {p} \cap Spool, "orphan")
    BY <1>3, <1>9 DEF Orphan, OrphanExcuse, IsUser
  <2>2. /\ excuses' \in [Paths -> SUBSET Kinds]
        /\ \A q \in Paths : excuses[q] \subseteq excuses'[q]
    BY <1>1, <2>1, ExcuseAdds, KindNames
  <2>3. ~Loadable(p) /\ p \notin DOMAIN tabs'
    BY <2>1, WithoutFacts DEF Loadable, IsUser
  <2>4. BadTrue(p)'
    BY <1>1, <1>3, <2>1, <2>2 DEF BadTrue, FileFit, Excused
  <2>5. QED
    BY <1>2, <1>3, <2>1, <2>2, <2>3, <2>4, JudgedStep
<1>10. QED
  BY <1>4, <1>5, <1>6, <1>7, <1>8, <1>9

\* What could not be opened waits for its failure to be recorded.
LEMMA UnopenedStep == ASSUME IInv, NEW p \in Paths, OpenFails(p) PROVE IInv'
<1>1. /\ UNCHANGED <<host, file, now, passwd, spool_secure, changes, phase, before, quiet, tabs, bad, orphan_logged>>
      /\ unopened = {} /\ open = {} /\ p \in listed /\ listed' = listed \ {p} /\ seen' = seen \cup {p}
      /\ unopened' = {p} /\ open' = {} /\ file[p].there /\ excuses' = Excuse({p}, "call")
  BY DEF OpenFails, Take, envVars, mapVars
<1>2. p \in host.paths /\ excuses \in [Paths -> SUBSET Kinds]
  BY <1>1 DEF IInv, Lasting, TypeOK, Existing
<1>3. /\ excuses' \in [Paths -> SUBSET Kinds] /\ "call" \in excuses'[p]
      /\ \A q \in Paths : excuses[q] \subseteq excuses'[q]
  BY <1>1, <1>2, ExcuseAdds, KindNames
<1>4. TypeOK'
  BY <1>1, <1>3 DEF IInv, Lasting, TypeOK
<1>5. Existing' /\ KeysOld' /\ Verdicts'
  BY <1>1, <1>2 DEF IInv, Lasting, Existing, KeysOld, Verdicts, OneVerdict
<1>6. ASSUME NEW q \in Paths PROVE TabTrue(q)' /\ BadTrue(q)'
  <2>1. TabTrue(q) /\ BadTrue(q)
    BY DEF IInv, Lasting
  <2>2. QED
    BY <1>1, <1>3, <2>1 DEF TabTrue, BadTrue, FileFit, Excused
<1>7. Places' /\ OpenNow'
  BY <1>1, <1>3 DEF IInv, Passing, Places, Pending, Handled, OpenNow
<1>8. ASSUME NEW q \in Paths PROVE Kept(q)' /\ Refreshed(q)'
  <2>1. Pending(q)' <=> Pending(q)
    BY <1>1 DEF Pending
  <2>2. ~Pending(q) => (q \in seen' <=> q \in seen)
    BY <1>1 DEF Pending
  <2>3. Kept(q) /\ Refreshed(q)
    BY DEF IInv, Passing
  <2>4. QED
    BY <1>1, <1>3, <2>1, <2>2, <2>3 DEF Kept, Refreshed, Handled, Loadable, FileFit, Excused
<1>9. QED
  BY <1>1, <1>4, <1>5, <1>6, <1>7, <1>8 DEF IInv, Lasting, Passing

\* The failure is recorded under the key of the file as it is, which it is for the
\* version that failed, or excused.
LEMMA KeyFailedStep == ASSUME IInv, KeyFailed PROVE IInv'
<1>1. PICK p \in unopened :
         /\ unopened' = {}
         /\ \/ /\ file[p].there
               /\ Fail(p, file[p].key)
               /\ excuses' = Excuse({p}, IF "call" \in excuses[p] THEN "io" ELSE "untried")
            \/ Fail(p, Epoch) /\ UNCHANGED excuses
         /\ UNCHANGED <<envVars, orphan_logged, phase, listed, open, seen, before, quiet>>
  BY DEF KeyFailed
<1>2. /\ p \in Paths /\ p \in host.paths /\ p \in seen /\ unopened \subseteq {p} /\ open = {}
      /\ excuses \in [Paths -> SUBSET Kinds]
      /\ quiet => "call" \in excuses[p]
  BY DEF IInv, Lasting, TypeOK, Existing, Passing, Places, OpenNow
<1>3. Judged(p) /\ file' = file
  BY <1>1, <1>2 DEF Judged, envVars
<1>4. PICK key \in {file[p].key, Epoch} :
         /\ Fail(p, key)
         /\ \/ key = file[p].key /\ excuses' = Excuse({p}, IF "call" \in excuses[p] THEN "io" ELSE "untried")
            \/ key = Epoch /\ UNCHANGED excuses
  BY <1>1
<1>5. bad' = With(bad, p, key) /\ tabs' = Without(tabs, p) /\ orphan_logged' = orphan_logged
  BY <1>1, <1>4 DEF Fail
<1>6. /\ excuses' \in [Paths -> SUBSET Kinds]
      /\ \A q \in Paths : excuses[q] \subseteq excuses'[q]
      /\ key = Epoch \/ Excused(p, {"io", "untried"})'
  <2>1. CASE key = Epoch /\ UNCHANGED excuses
    BY <1>2, <2>1
  <2>2. CASE excuses' = Excuse({p}, IF "call" \in excuses[p] THEN "io" ELSE "untried")
    BY <1>2, <2>2, ExcuseAdds, KindNames DEF Excused
  <2>3. QED
    BY <1>4, <2>1, <2>2
<1>7. p \notin DOMAIN tabs' /\ bad'[p] = key /\ file[p].key # Epoch
  <2>1. file[p].key \in Nat
    BY <1>2 DEF IInv, Lasting, TypeOK, Versions
  <2>2. p \notin DOMAIN tabs'
    BY <1>5, WithoutFacts
  <2>3. bad'[p] = key
    BY <1>5 DEF With
  <2>4. QED
    BY <2>1, <2>2, <2>3 DEF Epoch
<1>8. BadTrue(p)'
  BY <1>3, <1>6, <1>7 DEF BadTrue, Excused
<1>9. quiet => "call" \in excuses'[p]
  BY <1>2, <1>6
<1>10. QED
  BY <1>2, <1>3, <1>5, <1>6, <1>7, <1>8, <1>9, JudgedStep

\* A file that passed the checks is open, as it is.
LEMMA AcceptStep == ASSUME IInv, NEW p \in Paths, Accept(p) PROVE IInv'
<1> DEFINE o == [path |-> p, key |-> file[p].key, content |-> file[p].content, live |-> TRUE]
<1>1. /\ UNCHANGED <<host, file, now, passwd, spool_secure, changes, phase, before, quiet, tabs, bad, excuses, unopened>>
      /\ unopened = {} /\ open = {} /\ p \in listed /\ listed' = listed \ {p} /\ seen' = seen \cup {p}
      /\ open' = {o} /\ CheckPassed(p)
      /\ orphan_logged' = IF IsUser(p) THEN Without(orphan_logged, p) ELSE orphan_logged
  BY DEF Accept, Take, envVars
<1>2. /\ DOMAIN orphan_logged' \subseteq DOMAIN orphan_logged /\ p \notin DOMAIN orphan_logged'
      /\ \A q \in DOMAIN orphan_logged' : orphan_logged'[q] = orphan_logged[q]
  <2>1. CASE IsUser(p)
    BY <1>1, <2>1 DEF Without
  <2>2. CASE ~IsUser(p)
    BY <1>1, <2>2 DEF IsUser, IInv, Lasting, TypeOK
  <2>3. QED
    BY <2>1, <2>2
<1>3. /\ o \in [path : Paths, key : Nat, content : Contents, live : BOOLEAN]
      /\ o.path = p /\ o.key = file[p].key /\ o.live
  BY DEF IInv, Lasting, TypeOK, Versions, Contents
<1> HIDE DEF o
<1>4. TypeOK'
  BY <1>1, <1>2, <1>3 DEF IInv, Lasting, TypeOK
<1>5. FileFit(p) /\ p \in host.paths
  BY <1>1 DEF CheckPassed, check_file_security, OwnerOk, FileFit, IInv, Lasting, Existing
<1>6. Existing' /\ KeysOld' /\ Verdicts'
  <2>1. file[p].key \in Nat
    BY DEF IInv, Lasting, TypeOK, Versions
  <2>2. o.key <= file[o.path].key
    BY <1>3, <2>1
  <2>3. Existing' /\ Verdicts'
    BY <1>1, <1>2, <1>3, <1>5 DEF IInv, Lasting, Existing, Verdicts, OneVerdict
  <2>4. KeysOld'
    BY <1>1, <2>2 DEF IInv, Lasting, KeysOld
  <2>5. QED
    BY <2>3, <2>4
<1>7. ASSUME NEW q \in Paths PROVE TabTrue(q)' /\ BadTrue(q)'
  <2>1. TabTrue(q) /\ BadTrue(q)
    BY DEF IInv, Lasting
  <2>2. QED
    BY <1>1, <2>1 DEF TabTrue, BadTrue, FileFit, Excused
<1>8. \A h \in open' : OpenTrue(h)'
  BY <1>1, <1>3, <1>5 DEF OpenTrue, FileFit
<1>9. Places' /\ OpenNow'
  BY <1>1, <1>3 DEF IInv, Passing, Places, Pending, Handled, OpenNow
<1>10. ASSUME NEW q \in Paths PROVE Kept(q)' /\ Refreshed(q)'
  <2>1. Pending(q)' <=> Pending(q)
    BY <1>1, <1>3 DEF Pending
  <2>2. ~Pending(q) => (q \in seen' <=> q \in seen)
    BY <1>1 DEF Pending
  <2>3. Kept(q) /\ Refreshed(q)
    BY DEF IInv, Passing
  <2>4. QED
    BY <1>1, <2>1, <2>2, <2>3 DEF Kept, Refreshed, Handled, Loadable, FileFit, Excused
<1>11. QED
  BY <1>4, <1>6, <1>7, <1>8, <1>9, <1>10 DEF IInv, Lasting, Passing

\* What is read is loaded under the key it was checked with, or its failure is
\* recorded under it.
LEMMA ReadStep == ASSUME IInv, Read PROVE IInv'
<1>1. PICK h \in open : ReadFails(h) \/ Load(h)
  BY DEF Read
<1>2. PICK p \in Paths : p = h.path
  BY DEF IInv, Lasting, TypeOK
<1>3. /\ UNCHANGED <<host, file, now, passwd, spool_secure, changes, phase, before, quiet>>
      /\ UNCHANGED <<orphan_logged, listed, unopened, seen>>
      /\ open' = {} /\ unopened = {}
  BY DEF Read, envVars, IInv, Passing, Places
<1>4. /\ h.key \in Nat /\ h.key <= file[p].key /\ file[p].key \in Nat /\ p \in host.paths
      /\ p \in seen /\ p \notin DOMAIN orphan_logged
      /\ OpenTrue(h)
      /\ quiet => h.live /\ h.key = file[p].key
      /\ \A g \in open : g = h
      /\ excuses \in [Paths -> SUBSET Kinds]
  <2>1. h.key \in Nat /\ file[p].key \in Nat /\ (\A g \in open : g = h) /\ excuses \in [Paths -> SUBSET Kinds]
    BY DEF IInv, Lasting, TypeOK, Versions
  <2>2. h.key <= file[p].key /\ p \in host.paths /\ p \notin DOMAIN orphan_logged /\ OpenTrue(h)
    BY <1>2 DEF IInv, Lasting, Existing, KeysOld, Verdicts
  <2>3. p \in seen /\ (quiet => h.live /\ h.key = file[p].key)
    BY <1>2 DEF IInv, Passing, Places, OpenNow
  <2>4. QED
    BY <2>1, <2>2, <2>3
<1>5. \A q \in Paths : /\ Pending(q)' => Pending(q)
                       /\ q # p => (Pending(q) <=> Pending(q)')
  BY <1>2, <1>3, <1>4 DEF Pending
<1>6. ContentOf(h) \in Contents /\ (h.live => ContentOf(h) = file[p].content)
  BY <1>2 DEF IInv, Lasting, TypeOK, ContentOf, Versions, Contents
<1>7. Places' /\ OpenNow'
  BY <1>3, <1>5 DEF IInv, Passing, Places, Handled, OpenNow
<1>8. CASE ReadFails(h)
  <2>1. tabs' = Without(tabs, p) /\ bad' = With(bad, p, h.key)
    BY <1>2, <1>8 DEF ReadFails, Fail
  <2>2. /\ DOMAIN tabs' = DOMAIN tabs \ {p} /\ \A q \in DOMAIN tabs' : tabs'[q] = tabs[q]
        /\ DOMAIN bad' = DOMAIN bad \cup {p} /\ bad'[p] = h.key
        /\ \A q \in DOMAIN bad : q # p => bad'[q] = bad[q]
    BY <2>1 DEF Without, With
  <2>3. /\ excuses' \in [Paths -> SUBSET Kinds]
        /\ \A q \in Paths : excuses[q] \subseteq excuses'[q]
        /\ Refused(h) \/ (h.key = file[p].key => "io" \in excuses'[p])
    <3>1. CASE Refused(h) /\ UNCHANGED excuses
      BY <1>4, <3>1
    <3>2. CASE excuses' = Excuse(IF h.key = file[h.path].key THEN {h.path} ELSE {}, "io")
      BY <1>2, <1>4, <3>2, ExcuseAdds, KindNames
    <3>3. QED
      BY <1>8, <3>1, <3>2 DEF ReadFails
  <2>4. Refused(h) /\ h.live => ~Loadable(p) /\ IsUser(p) /\ file[p].content \in OverLimit
    BY <1>2, <1>6 DEF Refused, Loadable
  <2>5. TypeOK'
    <3>1. /\ DOMAIN tabs' \subseteq Paths /\ \A q \in DOMAIN tabs' : tabs'[q] \in Entries
          /\ DOMAIN bad' \subseteq Paths /\ \A q \in DOMAIN bad' : bad'[q] \in Keys
      BY <1>4, <2>2 DEF IInv, Lasting, TypeOK, Keys
    <3>2. QED
      BY <1>3, <2>3, <3>1 DEF IInv, Lasting, TypeOK
  <2>6. Existing' /\ KeysOld' /\ Verdicts'
    BY <1>3, <1>4, <2>2 DEF IInv, Lasting, Existing, KeysOld, Verdicts, OneVerdict
  <2>7. ASSUME NEW q \in Paths PROVE TabTrue(q)' /\ BadTrue(q)'
    <3>1. TabTrue(q) /\ BadTrue(q)
      BY DEF IInv, Lasting
    <3>2. TabTrue(q)'
      BY <1>3, <2>2, <2>3, <3>1 DEF TabTrue, FileFit
    <3>3. CASE q = p
      <4>1. h.key = file[p].key /\ Refused(h) =>
               (IsUser(p) /\ file[p].content \in OverLimit) \/ "samekey" \in excuses'[p]
        BY <1>2, <1>4, <2>3, <2>4 DEF OpenTrue
      <4>2. QED
        BY <1>3, <2>2, <2>3, <3>2, <3>3, <4>1 DEF BadTrue, Excused
    <3>4. CASE q # p
      BY <1>3, <2>2, <2>3, <3>1, <3>2, <3>4 DEF BadTrue, FileFit, Excused
    <3>5. QED
      BY <3>3, <3>4
  <2>8. ASSUME NEW q \in Paths PROVE Kept(q)' /\ Refreshed(q)'
    <3>1. Kept(q) /\ Refreshed(q)
      BY DEF IInv, Passing
    <3>2. CASE q = p
      <4>1. quiet => ~Loadable(p) \/ "io" \in excuses'[p]
        BY <1>4, <2>3, <2>4
      <4>2. QED
        BY <1>3, <2>2, <3>2, <4>1 DEF Kept, Refreshed, Loadable, FileFit, Excused
    <3>3. CASE q # p
      BY <1>3, <1>5, <2>2, <2>3, <3>1, <3>3 DEF Kept, Refreshed, Handled, Loadable, FileFit, Excused
    <3>4. QED
      BY <3>2, <3>3
  <2>9. QED
    BY <1>3, <1>7, <2>5, <2>6, <2>7, <2>8 DEF IInv, Lasting, Passing
<1>9. CASE Load(h)
  <2> DEFINE e == [key |-> h.key, content |-> ContentOf(h)]
  <2>1. tabs' = With(tabs, p, e) /\ bad' = Without(bad, p) /\ excuses' = excuses
    BY <1>2, <1>9 DEF Load
  <2>2. e \in Entries /\ e.key = h.key /\ e.content = ContentOf(h)
    BY <1>4, <1>6 DEF Entries
  <2> HIDE DEF e
  <2>3. /\ DOMAIN tabs' = DOMAIN tabs \cup {p} /\ tabs'[p] = e
        /\ \A q \in DOMAIN tabs : q # p => tabs'[q] = tabs[q]
        /\ DOMAIN bad' = DOMAIN bad \ {p} /\ \A q \in DOMAIN bad' : bad'[q] = bad[q]
    BY <2>1 DEF Without, With
  <2>4. TypeOK'
    <3>1. /\ DOMAIN tabs' \subseteq Paths /\ \A q \in DOMAIN tabs' : tabs'[q] \in Entries
          /\ DOMAIN bad' \subseteq Paths /\ \A q \in DOMAIN bad' : bad'[q] \in Keys
      BY <2>2, <2>3 DEF IInv, Lasting, TypeOK
    <3>2. QED
      BY <1>3, <2>1, <3>1 DEF IInv, Lasting, TypeOK
  <2>5. Existing' /\ Verdicts'
    BY <1>3, <1>4, <2>3 DEF IInv, Lasting, Existing, Verdicts, OneVerdict
  <2>6. KeysOld'
    BY <1>3, <1>4, <2>2, <2>3 DEF IInv, Lasting, KeysOld
  <2>7. ASSUME NEW q \in Paths PROVE TabTrue(q)' /\ BadTrue(q)'
    <3>1. TabTrue(q) /\ BadTrue(q)
      BY DEF IInv, Lasting
    <3>2. BadTrue(q)'
      BY <1>3, <2>1, <2>3, <3>1 DEF BadTrue, FileFit, Excused
    <3>3. CASE q = p
      <4>1. h.key = file[p].key => \/ FileFit(p) /\ ContentOf(h) = file[p].content
                                   \/ "samekey" \in excuses[p]
        BY <1>2, <1>4, <1>6 DEF OpenTrue
      <4>2. QED
        BY <1>3, <2>1, <2>2, <2>3, <3>2, <3>3, <4>1 DEF TabTrue, FileFit
    <3>4. CASE q # p
      BY <1>3, <2>1, <2>3, <3>1, <3>2, <3>4 DEF TabTrue, FileFit
    <3>5. QED
      BY <3>3, <3>4
  <2>8. ASSUME NEW q \in Paths PROVE Kept(q)' /\ Refreshed(q)'
    <3>1. Kept(q) /\ Refreshed(q)
      BY DEF IInv, Passing
    <3>2. CASE q = p
      BY <1>3, <1>4, <2>2, <2>3, <3>2 DEF Kept, Refreshed
    <3>3. CASE q # p
      BY <1>3, <1>5, <2>1, <2>3, <3>1, <3>3 DEF Kept, Refreshed, Handled, Loadable, FileFit, Excused
    <3>4. QED
      BY <3>2, <3>3
  <2>9. QED
    BY <1>3, <1>7, <2>4, <2>5, <2>6, <2>7, <2>8 DEF IInv, Lasting, Passing
<1>10. QED
  BY <1>1, <1>8, <1>9

\* The invariant holds initially,
LEMMA InitIInv == ASSUME Init PROVE IInv
<1>1. /\ host \in Hosts /\ now = 0 /\ passwd \subseteq Spool /\ spool_secure = TRUE /\ changes = 0
      /\ file \in [Paths -> {Version(t, s) : t \in BOOLEAN, s \in Shapes}]
      /\ \A p \in Paths : file[p].there => p \in host.paths
      /\ tabs = << >> /\ bad = << >> /\ orphan_logged = << >>
      /\ phase = "idle" /\ listed = {} /\ unopened = {} /\ open = {} /\ seen = {} /\ before = {} /\ quiet = FALSE
      /\ excuses = [p \in Paths |-> {}]
  BY DEF Init, Version
<1>2. host.changes \in Nat
  BY <1>1, DatabaseAssumption
<1>3. \A t \in BOOLEAN, s \in Shapes : Version(t, s) \in Versions /\ Version(t, s).key = 0
  BY DatabaseAssumption DEF Version, Versions
<1>4. file \in [Paths -> Versions] /\ \A p \in Paths : file[p].key = 0
  BY <1>1, <1>3
<1>5. DOMAIN tabs = {} /\ DOMAIN bad = {} /\ DOMAIN orphan_logged = {}
  BY <1>1, EmptyMap
<1>6. TypeOK
  <2>1. changes \in 0 .. host.changes /\ now \in Nat
    BY <1>1, <1>2
  <2>2. excuses \in [Paths -> SUBSET Kinds]
    BY <1>1
  <2>3. /\ DOMAIN tabs \subseteq Paths /\ \A p \in DOMAIN tabs : tabs[p] \in Entries
        /\ DOMAIN bad \subseteq Paths /\ \A p \in DOMAIN bad : bad[p] \in Keys
        /\ DOMAIN orphan_logged \subseteq Spool
        /\ \A p \in DOMAIN orphan_logged : orphan_logged[p] \in Nat
    BY <1>5
  <2>4. passwd \subseteq Spool /\ spool_secure \in BOOLEAN /\ host \in Hosts
    BY <1>1
  <2>5. /\ phase \in {"idle", "system", "cron.d", "spool", "drop"}
        /\ listed \subseteq Paths /\ seen \subseteq Paths /\ before \subseteq Paths /\ quiet \in BOOLEAN
    BY <1>1
  <2>6. /\ unopened \subseteq Paths /\ \A p, q \in unopened : p = q
        /\ open \subseteq [path : Paths, key : Nat, content : Contents, live : BOOLEAN]
        /\ \A g, h \in open : g = h
    BY <1>1
  <2>7. QED
    BY <1>4, <2>1, <2>2, <2>3, <2>4, <2>5, <2>6 DEF TypeOK
<1>7. Existing /\ KeysOld /\ Verdicts
  BY <1>1, <1>4, <1>5 DEF Existing, KeysOld, Verdicts, OneVerdict
<1>8. \A p \in Paths : TabTrue(p) /\ BadTrue(p)
  BY <1>5 DEF TabTrue, BadTrue
<1>9. Passing
  BY <1>1 DEF Passing, Places, Pending, OpenNow, Refreshed, Kept
<1>10. QED
  BY <1>1, <1>6, <1>7, <1>8, <1>9 DEF IInv, Lasting

\* and is preserved.
LEMMA NextIInv == ASSUME IInv, [Next]_vars PROVE IInv'
<1>1. CASE UNCHANGED vars
  <2>1. /\ UNCHANGED <<host, file, now, passwd, spool_secure, changes, tabs, bad, orphan_logged>>
        /\ UNCHANGED <<phase, listed, unopened, open, seen, before, quiet, excuses>>
    BY <1>1 DEF vars, envVars, mapVars, scanVars, histVars
  <2>2. TypeOK' /\ Existing' /\ KeysOld' /\ Verdicts'
    BY <2>1 DEF IInv, Lasting, TypeOK, Existing, KeysOld, Verdicts, OneVerdict
  <2>3. ASSUME NEW p \in Paths PROVE TabTrue(p)' /\ BadTrue(p)' /\ Refreshed(p)' /\ Kept(p)'
    BY <2>1 DEF IInv, Lasting, Passing, TabTrue, BadTrue, Refreshed, Kept, Handled, Pending, Loadable,
                FileFit, Excused
  <2>4. Places' /\ OpenNow'
    BY <2>1 DEF IInv, Passing, Places, Handled, Pending, OpenNow
  <2>5. \A h \in open' : OpenTrue(h)'
    BY <2>1 DEF IInv, Lasting, OpenTrue, FileFit
  <2>6. QED
    BY <2>2, <2>3, <2>4, <2>5 DEF IInv, Lasting, Passing
<1>2. CASE Environment
  BY <1>2, EnvironmentStep
<1>3. CASE Daemon
  <2>1. CASE \E p \in Paths : consider(p)
    BY <2>1, ConsiderStep, UnopenedStep, AcceptStep DEF consider
  <2>2. QED
    BY <1>3, <2>1, BeginStep, DirectoryStep, DropStep, KeyFailedStep, ReadStep DEF Daemon
<1>4. QED
  BY <1>1, <1>2, <1>3 DEF Next

-----------------------------------------------------------------------------
(* Theorems.                                                               *)

\* The invariant holds, whatever happens to the files.
THEOREM Invariance == Spec => []IInv
<1>1. Init => IInv
  BY InitIInv
<1>2. IInv /\ [Next]_vars => IInv'
  BY NextIInv
<1>3. QED
  BY <1>1, <1>2, PTL DEF Spec

\* Type correctness.
THEOREM TypeCorrect == Spec => []TypeOK
<1>1. IInv => TypeOK
  BY DEF IInv, Lasting
<1>2. QED
  BY <1>1, Invariance, PTL

\* No file is loaded and recorded as failed or orphaned at once.
THEOREM OneVerdictHolds == Spec => []OneVerdict
<1>1. IInv => OneVerdict
  BY DEF IInv, Lasting, Verdicts
<1>2. QED
  BY <1>1, Invariance, PTL

\* Once a refresh is over nothing is to be considered, or read.
LEMMA SettledFacts ==
    ASSUME IInv, Settled, NEW p \in Paths
    PROVE  quiet /\ Handled(p) /\ ~Pending(p) /\ Refreshed(p) /\ Kept(p) /\ TabTrue(p)
BY DEF IInv, Lasting, Passing, Places, Settled, Handled

\* After a refresh what is loaded is what is there.
THEOREM NothingStaleHolds == Spec => []NothingStale
<1>1. IInv => NothingStale
  <2> SUFFICES ASSUME IInv, Settled, NEW p \in DOMAIN tabs
               PROVE  \/ FileFit(p) /\ tabs[p].content = file[p].content
                      \/ Excused(p, {"unlisted", "nss", "samekey"})
    BY DEF NothingStale
  <2>1. p \in Paths
    BY DEF IInv, Lasting, TypeOK
  <2>2. quiet /\ Handled(p) /\ ~Pending(p) /\ Refreshed(p) /\ TabTrue(p) /\ phase = "idle"
    BY <2>1, SettledFacts DEF Settled
  <2>3. tabs[p].key = file[p].key \/ Excused(p, {"unlisted", "nss"})
    BY <2>2 DEF Refreshed
  <2>4. QED
    BY <2>2, <2>3 DEF TabTrue, Excused
<1>2. QED
  BY <1>1, Invariance, PTL

\* After a refresh what should run is loaded, unless a call has failed.
THEOREM NothingMissingHolds == Spec => []NothingMissing
<1>1. IInv => NothingMissing
  BY SettledFacts DEF NothingMissing, Refreshed
<1>2. QED
  BY <1>1, Invariance, PTL

\* A refresh unloads a crontab only for a cause of its own.
THEOREM UnloadedForCauseHolds == Spec => []UnloadedForCause
<1>1. IInv => UnloadedForCause
  <2> SUFFICES ASSUME IInv, Settled, NEW p \in before \ DOMAIN tabs
               PROVE  ~Loadable(p) \/ Excused(p, {"entry", "call", "io"})
    BY DEF UnloadedForCause
  <2>1. p \in Paths
    BY DEF IInv, Lasting, TypeOK
  <2>2. QED
    BY <2>1, SettledFacts DEF Kept
<1>2. QED
  BY <1>1, Invariance, PTL
=============================================================================
