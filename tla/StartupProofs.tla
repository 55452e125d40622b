--------------------------- MODULE StartupProofs ----------------------------
(***************************************************************************)
(* Proofs about Startup, for any number of processes, starts, deaths and   *)
(* shutdowns.                                                              *)
(***************************************************************************)
EXTENDS StartupInv, FiniteSetTheorems, TLAPS

\* Numbers of inodes: 1 up to one more than the removals allowed.
LEMMA InodeFacts ==
    /\ \A i : i \in Inodes <=> i \in Int /\ 1 <= i /\ i <= MaxUnlinks + 1
    /\ NoFile \notin Inodes
    /\ MaxUnlinks \in Nat
BY StartupAssumption DEF Inodes, NoFile

\* The numbers among the variables.
LEMMA Numbers ==
    TypeOK => /\ unlinks \in Nat /\ unlinks <= MaxUnlinks
              /\ reboot_runs \in Nat
              /\ \A d \in Daemons : fd[d] \in Int /\ (fd[d] # NoFile => fd[d] \in Inodes)
<1> SUFFICES ASSUME TypeOK
             PROVE  /\ unlinks \in Nat /\ unlinks <= MaxUnlinks
                    /\ reboot_runs \in Nat
                    /\ \A d \in Daemons : fd[d] \in Int /\ (fd[d] # NoFile => fd[d] \in Inodes)
  OBVIOUS
<1>1. /\ unlinks \in 0..MaxUnlinks
      /\ reboot_runs \in Nat
      /\ fd \in [Daemons -> Inodes \cup {NoFile}]
  BY DEF TypeOK
<1>2. NoFile \in Int /\ \A i \in Inodes : i \in Int
  BY InodeFacts DEF NoFile
<1>3. \A d \in Daemons : fd[d] \in Int /\ (fd[d] # NoFile => fd[d] \in Inodes)
  BY <1>1, <1>2
<1>4. unlinks \in Nat /\ unlinks <= MaxUnlinks
  BY <1>1, InodeFacts
<1>5. QED
  BY <1>1, <1>3, <1>4

\* While no pid file was removed there is one inode, and one process holds it.
LEMMA OneActive ==
    ASSUME TypeOK, FilesInOrder, LockExclusive, unlinks = 0,
           NEW d \in Daemons, NEW e \in Daemons,
           pc[d] \in Holding, pc[e] \in Holding
    PROVE  d = e
<1>1. fd[d] \in Int /\ fd[e] \in Int
  BY Numbers
<1>2. fd[d] = 1 /\ fd[e] = 1
  BY <1>1 DEF FilesInOrder, Holding
<1>3. QED
  BY <1>2 DEF LockExclusive, Active

-----------------------------------------------------------------------------
(* Each action preserves the invariant.                                    *)

\* A host on which nothing runs yet satisfies the invariant.
LEMMA InitInv == Init => IInv
<1> SUFFICES ASSUME Init PROVE IInv
  OBVIOUS
<1>1. TypeOK
  <2>1. pc \in [Daemons -> PCs] /\ marker \in BOOLEAN /\ mishaps \subseteq Mishaps
    BY DEF Init, PCs
  <2>2. /\ fd \in [Daemons -> Inodes \cup {NoFile}]
        /\ path \in Inodes \cup {NoFile}
        /\ pid \in [Inodes -> Daemons \cup {NoPid}]
    BY DEF Init
  <2>3. unlinks \in 0..MaxUnlinks /\ reboot_runs \in Nat
    BY StartupAssumption DEF Init
  <2>4. QED
    BY <2>1, <2>2, <2>3 DEF TypeOK
<1>2. FilesInOrder /\ LockExclusive /\ PidKept
  BY DEF Init, FilesInOrder, LockExclusive, PidKept, Active, Holding, NoFile
<1>3. MarkerFirst
  BY DEF Init, MarkerFirst
<1>4. QED
  BY <1>1, <1>2, <1>3 DEF IInv

LEMMA HostRebootInv == HostReboot => IInv'
<1> SUFFICES ASSUME HostReboot PROVE IInv'
  OBVIOUS
<1>1. TypeOK'
  <2>1. pc' \in [Daemons -> PCs] /\ marker' \in BOOLEAN /\ mishaps' \subseteq Mishaps
    BY DEF HostReboot, PCs
  <2>2. /\ fd' \in [Daemons -> Inodes \cup {NoFile}]
        /\ path' \in Inodes \cup {NoFile}
        /\ pid' \in [Inodes -> Daemons \cup {NoPid}]
    BY DEF HostReboot
  <2>3. unlinks' \in 0..MaxUnlinks /\ reboot_runs' \in Nat
    BY StartupAssumption DEF HostReboot
  <2>4. QED
    BY <2>1, <2>2, <2>3 DEF TypeOK
<1>2. FilesInOrder' /\ LockExclusive' /\ PidKept'
  BY DEF HostReboot, FilesInOrder, LockExclusive, PidKept, Active, Holding, NoFile
<1>3. MarkerFirst'
  BY DEF HostReboot, MarkerFirst
<1>4. QED
  BY <1>1, <1>2, <1>3 DEF IInv

LEMMA OpenInv == ASSUME IInv, NEW d \in Daemons, Open(d) PROVE IInv'
<1>1. /\ TypeOK /\ FilesInOrder /\ LockExclusive /\ PidKept
      /\ "no_marker" \notin mishaps => MarkerFirst
  BY DEF IInv
<1>2. /\ pc[d] = "off"
      /\ LET inode == IF path = NoFile THEN unlinks + 1 ELSE path
         IN  path' = inode /\ fd' = [fd EXCEPT ![d] = inode]
      /\ pc' = [pc EXCEPT ![d] = "opened"]
      /\ UNCHANGED <<pid, marker, unlinks, reboot_runs, mishaps>>
  BY DEF Open, Goto
<1>3. TypeOK'
  <2>0. unlinks \in Nat /\ unlinks <= MaxUnlinks
    BY <1>1, Numbers, Zenon
  <2>1. unlinks \in Int /\ 0 <= unlinks /\ unlinks <= MaxUnlinks
    BY <2>0
  <2>2. unlinks + 1 \in Inodes
    BY <2>1, InodeFacts
  <2>3. path' \in Inodes \cup {NoFile} /\ fd' \in [Daemons -> Inodes \cup {NoFile}]
    BY <1>1, <1>2, <2>2 DEF TypeOK
  <2>4. QED
    BY <1>1, <1>2, <2>3 DEF TypeOK, PCs
<1>4. FilesInOrder'
  <2>0. unlinks \in Nat /\ \A e \in Daemons : fd[e] \in Int
    BY <1>1, Numbers, Zenon
  <2>1. unlinks \in Int /\ 0 <= unlinks /\ \A e \in Daemons : fd[e] \in Int
    BY <2>0
  <2>2. path' = unlinks + 1 /\ fd' = [fd EXCEPT ![d] = unlinks + 1] /\ unlinks' = unlinks
    BY <1>1, <1>2 DEF FilesInOrder
  <2>3. path' # NoFile
    BY <2>1, <2>2 DEF NoFile
  <2>4. ASSUME NEW e \in Daemons, pc'[e] # "off"
        PROVE  1 <= fd'[e] /\ fd'[e] <= unlinks + 1
    <3>1. CASE e = d
      <4>1. fd'[e] = unlinks + 1
        BY <1>1, <2>2, <3>1 DEF TypeOK
      <4>2. QED
        BY <2>1, <4>1
    <3>2. CASE e # d
      <4>1. fd'[e] = fd[e] /\ pc[e] # "off"
        BY <1>1, <1>2, <2>2, <2>4, <3>2 DEF TypeOK
      <4>2. QED
        BY <1>1, <4>1 DEF FilesInOrder
    <3>3. QED
      BY <3>1, <3>2
  <2>5. QED
    BY <2>2, <2>3, <2>4 DEF FilesInOrder
<1>5. LockExclusive'
  <2>1. Active' = Active /\ d \notin Active /\ Active \subseteq Daemons
    BY <1>1, <1>2 DEF TypeOK, Active, Holding
  <2>2. \A e \in Active : fd'[e] = fd[e]
    BY <1>1, <1>2, <2>1 DEF TypeOK
  <2>3. QED
    BY <1>1, <2>1, <2>2 DEF LockExclusive
<1>6. PidKept'
  BY <1>1, <1>2 DEF TypeOK, PidKept, Holding
<1>7. "no_marker" \notin mishaps' => MarkerFirst'
  BY <1>1, <1>2 DEF TypeOK, MarkerFirst
<1>8. QED
  BY <1>3, <1>4, <1>5, <1>6, <1>7 DEF IInv

LEMMA LockInv == ASSUME IInv, NEW d \in Daemons, Lock(d) PROVE IInv'
<1>1. /\ TypeOK /\ FilesInOrder /\ LockExclusive /\ PidKept
      /\ "no_marker" \notin mishaps => MarkerFirst
  BY DEF IInv
<1>2. /\ pc[d] = "opened" /\ ~LockedByOther(d)
      /\ pc' = [pc EXCEPT ![d] = "locked"]
      /\ UNCHANGED <<fd, path, pid, marker, unlinks, reboot_runs, mishaps>>
  BY DEF Lock, Goto
<1>3. TypeOK'
  BY <1>1, <1>2 DEF TypeOK, PCs
<1>4. FilesInOrder'
  BY <1>1, <1>2 DEF TypeOK, FilesInOrder, Inodes, NoFile
<1>5. LockExclusive'
  <2>1. Active' = Active \cup {d} /\ d \notin Active
    BY <1>1, <1>2 DEF TypeOK, Active, Holding
  <2>2. \A e \in Active : fd[e] # fd[d]
    BY <1>2, <2>1 DEF LockedByOther
  <2>3. QED
    BY <1>1, <1>2, <2>1, <2>2 DEF LockExclusive
<1>6. PidKept'
  BY <1>1, <1>2 DEF TypeOK, PidKept, Holding
<1>7. "no_marker" \notin mishaps' => MarkerFirst'
  BY <1>1, <1>2 DEF TypeOK, MarkerFirst
<1>8. QED
  BY <1>3, <1>4, <1>5, <1>6, <1>7 DEF IInv

LEMMA LockFailsInv == ASSUME IInv, NEW d \in Daemons, LockFails(d) PROVE IInv'
<1>1. /\ TypeOK /\ FilesInOrder /\ LockExclusive /\ PidKept
      /\ "no_marker" \notin mishaps => MarkerFirst
  BY DEF IInv
<1>2. /\ pc[d] = "opened"
      /\ pc' = [pc EXCEPT ![d] = "off"]
      /\ fd' = [fd EXCEPT ![d] = NoFile]
      /\ UNCHANGED <<path, pid, marker, unlinks, reboot_runs, mishaps>>
  BY DEF LockFails, Goto, Exit
<1>3. TypeOK'
  BY <1>1, <1>2 DEF TypeOK, PCs
<1>4. FilesInOrder'
  BY <1>1, <1>2 DEF TypeOK, FilesInOrder, Inodes, NoFile
<1>5. LockExclusive'
  <2>1. Active' \subseteq Active \ {d} /\ Active \subseteq Daemons
    BY <1>1, <1>2 DEF TypeOK, Active, Holding
  <2>2. \A e \in Active' : fd'[e] = fd[e]
    BY <1>1, <1>2, <2>1 DEF TypeOK
  <2>3. QED
    BY <1>1, <2>1, <2>2 DEF LockExclusive
<1>6. PidKept'
  BY <1>1, <1>2 DEF TypeOK, PidKept, Holding
<1>7. "no_marker" \notin mishaps' => MarkerFirst'
  BY <1>1, <1>2 DEF TypeOK, MarkerFirst
<1>8. QED
  BY <1>3, <1>4, <1>5, <1>6, <1>7 DEF IInv

LEMMA WritePidInv == ASSUME IInv, NEW d \in Daemons, WritePid(d) PROVE IInv'
<1>1. /\ TypeOK /\ FilesInOrder /\ LockExclusive /\ PidKept
      /\ "no_marker" \notin mishaps => MarkerFirst
  BY DEF IInv
<1>2. /\ pc[d] = "locked"
      /\ \/ pid' = [pid EXCEPT ![fd[d]] = d] /\ mishaps' = mishaps
         \/ /\ pid' = [pid EXCEPT ![fd[d]] = NoPid]
            /\ mishaps' = mishaps \cup {"no_pid"}
      /\ pc' = [pc EXCEPT ![d] = "started"]
      /\ UNCHANGED <<fd, path, marker, unlinks, reboot_runs>>
  BY DEF WritePid, Goto
<1>3. TypeOK'
  <2>1. pid' \in [Inodes -> Daemons \cup {NoPid}] /\ mishaps' \subseteq Mishaps
    BY <1>1, <1>2 DEF TypeOK, Mishaps
  <2>2. QED
    BY <1>1, <1>2, <2>1 DEF TypeOK, PCs
<1>4. FilesInOrder'
  BY <1>1, <1>2 DEF TypeOK, FilesInOrder, Inodes, NoFile
<1>5. LockExclusive'
  <2>1. Active' = Active
    BY <1>1, <1>2 DEF TypeOK, Active, Holding
  <2>2. QED
    BY <1>1, <1>2, <2>1 DEF LockExclusive
<1>6. PidKept'
  <2> SUFFICES ASSUME NEW e \in Daemons, pc'[e] \in Holding \ {"locked"}
               PROVE  pid'[fd'[e]] = e \/ "no_pid" \in mishaps'
    BY DEF PidKept
  <2>1. fd[d] \in Inodes
    <3>1. 1 <= fd[d]
      BY <1>1, <1>2 DEF FilesInOrder
    <3>2. fd[d] # NoFile
      BY <3>1 DEF NoFile
    <3>3. QED
      BY <1>1, <3>2, Numbers
  <2>2. CASE e = d
    BY <1>1, <1>2, <2>1, <2>2 DEF TypeOK
  <2>3. CASE e # d
    <3>1. pc[e] \in Holding \ {"locked"}
      BY <1>1, <1>2, <2>3 DEF TypeOK
    <3>2. fd[e] # fd[d]
      BY <1>1, <1>2, <2>3, <3>1 DEF LockExclusive, Active, Holding
    <3>3. pid'[fd'[e]] = pid[fd[e]]
      <4>1. fd[e] # NoFile
        <5>1. 1 <= fd[e]
          BY <1>1, <3>1 DEF FilesInOrder, Holding
        <5>2. QED
          BY <5>1 DEF NoFile
      <4>2. fd[e] \in Inodes
        BY <1>1, <4>1, Numbers
      <4>3. QED
        BY <1>1, <1>2, <3>2, <4>2 DEF TypeOK
    <3>4. QED
      BY <1>1, <1>2, <3>1, <3>3 DEF PidKept
  <2>4. QED
    BY <2>2, <2>3
<1>7. "no_marker" \notin mishaps' => MarkerFirst'
  BY <1>1, <1>2 DEF TypeOK, MarkerFirst
<1>8. QED
  BY <1>3, <1>4, <1>5, <1>6, <1>7 DEF IInv

LEMMA CheckMarkerInv == ASSUME IInv, NEW d \in Daemons, CheckMarker(d) PROVE IInv'
<1>1. /\ TypeOK /\ FilesInOrder /\ LockExclusive /\ PidKept
      /\ "no_marker" \notin mishaps => MarkerFirst
  BY DEF IInv
<1>2. /\ pc[d] = "started"
      /\ pc' = [pc EXCEPT ![d] = IF marker THEN "looping" ELSE "marking"]
      /\ UNCHANGED <<fd, path, pid, marker, unlinks, reboot_runs, mishaps>>
  BY DEF CheckMarker, Goto
<1>3. TypeOK'
  BY <1>1, <1>2 DEF TypeOK, PCs
<1>4. FilesInOrder'
  BY <1>1, <1>2 DEF TypeOK, FilesInOrder, Inodes, NoFile
<1>5. LockExclusive'
  <2>1. Active' = Active
    BY <1>1, <1>2 DEF TypeOK, Active, Holding
  <2>2. QED
    BY <1>1, <1>2, <2>1 DEF LockExclusive
<1>6. PidKept'
  BY <1>1, <1>2 DEF TypeOK, PidKept, Holding
<1>7. "no_marker" \notin mishaps' => MarkerFirst'
  <2> SUFFICES ASSUME "no_marker" \notin mishaps PROVE MarkerFirst'
    BY <1>2
  <2>1. MarkerFirst
    BY <1>1
  <2>2. ASSUME NEW e \in Daemons, pc[e] = "rebooting"
        PROVE  FALSE
    BY <1>1, <1>2, <2>1, <2>2, OneActive DEF MarkerFirst, Holding
  <2>3. \A e \in Daemons \ {d} : pc'[e] = pc[e]
    BY <1>1, <1>2 DEF TypeOK
  <2>4. CASE marker
    BY <1>1, <1>2, <2>1, <2>2, <2>3, <2>4 DEF TypeOK, MarkerFirst
  <2>5. CASE ~marker
    BY <1>1, <1>2, <2>1, <2>2, <2>3, <2>5 DEF TypeOK, MarkerFirst
  <2>6. QED
    BY <2>4, <2>5
<1>8. QED
  BY <1>3, <1>4, <1>5, <1>6, <1>7 DEF IInv

LEMMA CreateMarkerInv == ASSUME IInv, NEW d \in Daemons, CreateMarker(d) PROVE IInv'
<1>1. /\ TypeOK /\ FilesInOrder /\ LockExclusive /\ PidKept
      /\ "no_marker" \notin mishaps => MarkerFirst
  BY DEF IInv
<1>2. /\ pc[d] = "marking"
      /\ marker' = TRUE
      /\ pc' = [pc EXCEPT ![d] = "rebooting"]
      /\ UNCHANGED <<fd, path, pid, unlinks, reboot_runs, mishaps>>
  BY DEF CreateMarker, Goto
<1>3. TypeOK'
  BY <1>1, <1>2 DEF TypeOK, PCs
<1>4. FilesInOrder'
  BY <1>1, <1>2 DEF TypeOK, FilesInOrder, Inodes, NoFile
<1>5. LockExclusive'
  <2>1. Active' = Active
    BY <1>1, <1>2 DEF TypeOK, Active, Holding
  <2>2. QED
    BY <1>1, <1>2, <2>1 DEF LockExclusive
<1>6. PidKept'
  BY <1>1, <1>2 DEF TypeOK, PidKept, Holding
<1>7. "no_marker" \notin mishaps' => MarkerFirst'
  <2> SUFFICES ASSUME "no_marker" \notin mishaps PROVE MarkerFirst'
    BY <1>2
  <2>1. MarkerFirst
    BY <1>1
  <2>2. /\ unlinks = 0 /\ reboot_runs = 0
        /\ \A e \in Daemons : pc[e] \notin {"rebooting", "looping", "unlocked"}
    BY <1>2, <2>1 DEF MarkerFirst
  <2>3. \A e \in Daemons : pc[e] = "marking" => e = d
    BY <1>1, <1>2, <2>2, OneActive DEF Holding
  <2>4. pc'[d] = "rebooting" /\ \A e \in Daemons \ {d} : pc'[e] = pc[e]
    BY <1>1, <1>2 DEF TypeOK
  <2>r. unlinks' = unlinks /\ unlinks = 0 /\ reboot_runs' = reboot_runs /\ reboot_runs = 0
    BY <1>2, <2>2, Zenon
  <2>5. unlinks' = 0 /\ reboot_runs' = 0 /\ reboot_runs' <= 1
    BY <2>r
  <2>m. marker'
    BY <1>2, Zenon
  <2>6. \A e \in Daemons : pc'[e] # "marking" /\ pc'[e] \notin {"looping", "unlocked"}
    BY <2>2, <2>3, <2>4
  <2>7. QED
    BY <2>m, <2>4, <2>5, <2>6, Zenon DEF MarkerFirst
<1>8. QED
  BY <1>3, <1>4, <1>5, <1>6, <1>7 DEF IInv

LEMMA CreateMarkerFailsInv == ASSUME IInv, NEW d \in Daemons, CreateMarkerFails(d) PROVE IInv'
<1>1. /\ TypeOK /\ FilesInOrder /\ LockExclusive /\ PidKept
      /\ "no_marker" \notin mishaps => MarkerFirst
  BY DEF IInv
<1>2. /\ pc[d] = "marking"
      /\ mishaps' = mishaps \cup {"no_marker"}
      /\ pc' = [pc EXCEPT ![d] = "looping"]
      /\ UNCHANGED <<fd, path, pid, marker, unlinks, reboot_runs>>
  BY DEF CreateMarkerFails, Goto
<1>3. TypeOK'
  BY <1>1, <1>2 DEF TypeOK, PCs, Mishaps
<1>4. FilesInOrder'
  BY <1>1, <1>2 DEF TypeOK, FilesInOrder, Inodes, NoFile
<1>5. LockExclusive'
  <2>1. Active' = Active
    BY <1>1, <1>2 DEF TypeOK, Active, Holding
  <2>2. QED
    BY <1>1, <1>2, <2>1 DEF LockExclusive
<1>6. PidKept'
  BY <1>1, <1>2 DEF TypeOK, PidKept, Holding
<1>7. "no_marker" \notin mishaps' => MarkerFirst'
  BY <1>2
<1>8. QED
  BY <1>3, <1>4, <1>5, <1>6, <1>7 DEF IInv

LEMMA RunRebootInv == ASSUME IInv, NEW d \in Daemons, RunReboot(d) PROVE IInv'
<1>1. /\ TypeOK /\ FilesInOrder /\ LockExclusive /\ PidKept
      /\ "no_marker" \notin mishaps => MarkerFirst
  BY DEF IInv
<1>2. /\ pc[d] = "rebooting"
      /\ reboot_runs' = reboot_runs + 1
      /\ pc' = [pc EXCEPT ![d] = "looping"]
      /\ UNCHANGED <<fd, path, pid, marker, unlinks, mishaps>>
  BY DEF RunReboot, Goto
<1>3. TypeOK'
  <2>0. reboot_runs \in Nat
    BY <1>1, Numbers, Zenon
  <2>1. reboot_runs' \in Nat
    BY <1>2, <2>0
  <2>2. pc' \in [Daemons -> PCs]
    BY <1>1, <1>2 DEF TypeOK, PCs
  <2>3. QED
    BY <1>1, <1>2, <2>1, <2>2 DEF TypeOK
<1>4. FilesInOrder'
  BY <1>1, <1>2 DEF TypeOK, FilesInOrder, Inodes, NoFile
<1>5. LockExclusive'
  <2>1. Active' = Active
    BY <1>1, <1>2 DEF TypeOK, Active, Holding
  <2>2. QED
    BY <1>1, <1>2, <2>1 DEF LockExclusive
<1>6. PidKept'
  BY <1>1, <1>2 DEF TypeOK, PidKept, Holding
<1>7. "no_marker" \notin mishaps' => MarkerFirst'
  <2> SUFFICES ASSUME "no_marker" \notin mishaps PROVE MarkerFirst'
    BY <1>2
  <2>1. MarkerFirst
    BY <1>1
  <2>2. unlinks = 0 /\ reboot_runs = 0 /\ marker = TRUE
    BY <1>1, <1>2, <2>1 DEF MarkerFirst, TypeOK
  <2>3. \A e \in Daemons : pc[e] = "rebooting" => e = d
    BY <1>1, <1>2, <2>2, OneActive DEF Holding
  <2>4. pc'[d] = "looping" /\ \A e \in Daemons \ {d} : pc'[e] = pc[e]
    BY <1>1, <1>2 DEF TypeOK
  <2>r. reboot_runs' = reboot_runs + 1 /\ reboot_runs = 0
    BY <1>2, <2>2, Zenon
  <2>m. marker'
    BY <1>2, <2>2, Zenon
  <2>6. \A e \in Daemons : pc'[e] # "rebooting" /\ (pc'[e] = "marking" => ~marker)
    BY <1>1, <1>2, <2>1, <2>3, <2>4 DEF MarkerFirst
  <2>7. reboot_runs' <= 1 /\ reboot_runs' # 0
    BY <2>r
  <2>8. \A e \in Daemons : pc'[e] = "marking" => ~marker'
    BY <1>2, <2>6, Zenon
  <2>9. QED
    BY <2>m, <2>6, <2>7, <2>8, Zenon DEF MarkerFirst
<1>8. QED
  BY <1>3, <1>4, <1>5, <1>6, <1>7 DEF IInv

LEMMA UnlockInv == ASSUME IInv, NEW d \in Daemons, Unlock(d) PROVE IInv'
<1>1. /\ TypeOK /\ FilesInOrder /\ LockExclusive /\ PidKept
      /\ "no_marker" \notin mishaps => MarkerFirst
  BY DEF IInv
<1>2. /\ pc[d] = "looping"
      /\ pc' = [pc EXCEPT ![d] = "unlocked"]
      /\ UNCHANGED <<fd, path, pid, marker, unlinks, reboot_runs, mishaps>>
  BY DEF Unlock, Goto
<1>3. TypeOK'
  BY <1>1, <1>2 DEF TypeOK, PCs
<1>4. FilesInOrder'
  BY <1>1, <1>2 DEF TypeOK, FilesInOrder, Inodes, NoFile
<1>5. LockExclusive'
  <2>1. Active' \subseteq Active
    BY <1>1, <1>2 DEF TypeOK, Active, Holding
  <2>2. QED
    BY <1>1, <1>2, <2>1 DEF LockExclusive
<1>6. PidKept'
  BY <1>1, <1>2 DEF TypeOK, PidKept, Holding
<1>7. "no_marker" \notin mishaps' => MarkerFirst'
  BY <1>1, <1>2 DEF TypeOK, MarkerFirst
<1>8. QED
  BY <1>3, <1>4, <1>5, <1>6, <1>7 DEF IInv

LEMMA UnlinkInv == ASSUME IInv, NEW d \in Daemons, Unlink(d) PROVE IInv'
<1>1. /\ TypeOK /\ FilesInOrder /\ LockExclusive /\ PidKept
      /\ "no_marker" \notin mishaps => MarkerFirst
  BY DEF IInv
<1>2. /\ pc[d] = "unlocked" /\ unlinks < MaxUnlinks
      /\ path' = NoFile
      /\ unlinks' = IF path = NoFile THEN unlinks ELSE unlinks + 1
      /\ pc' = [pc EXCEPT ![d] = "off"]
      /\ fd' = [fd EXCEPT ![d] = NoFile]
      /\ UNCHANGED <<pid, marker, reboot_runs, mishaps>>
  BY DEF Unlink, Goto, Exit
<1>3. TypeOK'
  <2>0. unlinks \in Nat /\ MaxUnlinks \in Nat
    BY <1>1, Numbers, InodeFacts, Zenon
  <2>1. unlinks' \in 0..MaxUnlinks
    BY <1>2, <2>0
  <2>2. pc' \in [Daemons -> PCs] /\ fd' \in [Daemons -> Inodes \cup {NoFile}]
    BY <1>1, <1>2 DEF TypeOK, PCs
  <2>3. QED
    BY <1>1, <1>2, <2>1, <2>2 DEF TypeOK
<1>4. FilesInOrder'
  <2>0. unlinks \in Nat /\ \A e \in Daemons : fd[e] \in Int
    BY <1>1, Numbers, Zenon
  <2>1. unlinks \in Int /\ \A e \in Daemons : fd[e] \in Int
    BY <2>0
  <2>2. ASSUME NEW e \in Daemons, pc'[e] # "off"
        PROVE  1 <= fd'[e] /\ fd'[e] <= unlinks'
    <3>1. e # d /\ fd'[e] = fd[e] /\ pc[e] # "off"
      BY <1>1, <1>2, <2>2 DEF TypeOK
    <3>2. 1 <= fd[e] /\ fd[e] <= unlinks + 1 /\ (path = NoFile => fd[e] <= unlinks)
      BY <1>1, <3>1 DEF FilesInOrder
    <3>3. CASE path = NoFile
      BY <1>2, <3>1, <3>2, <3>3
    <3>4. CASE path # NoFile
      BY <1>2, <3>1, <3>2, <3>4
    <3>5. QED
      BY <3>3, <3>4
  <2>3. unlinks' \in Int /\ path' = NoFile
    BY <1>2, <2>1
  <2>4. \A e \in Daemons : fd'[e] \in Int
    <3>1. NoFile \in Int
      BY DEF NoFile
    <3>2. fd \in [Daemons -> Inodes \cup {NoFile}]
      BY <1>1 DEF TypeOK
    <3>3. \A e \in Daemons : fd'[e] = fd[e] \/ fd'[e] = NoFile
      BY <1>2, <3>2
    <3>4. QED
      BY <2>1, <3>1, <3>3, Zenon
  <2>5. ASSUME NEW e \in Daemons, pc'[e] # "off"
        PROVE  1 <= fd'[e] /\ fd'[e] <= unlinks' + 1 /\ fd'[e] <= unlinks'
    BY <2>2, <2>3, <2>4, <2>5
  <2>6. QED
    BY <2>3, <2>5 DEF FilesInOrder
<1>5. LockExclusive'
  <2>1. Active' \subseteq Active \ {d} /\ Active \subseteq Daemons
    BY <1>1, <1>2 DEF TypeOK, Active, Holding
  <2>2. \A e \in Active' : fd'[e] = fd[e]
    BY <1>1, <1>2, <2>1 DEF TypeOK
  <2>3. QED
    BY <1>1, <2>1, <2>2 DEF LockExclusive
<1>6. PidKept'
  BY <1>1, <1>2 DEF TypeOK, PidKept, Holding
<1>7. "no_marker" \notin mishaps' => MarkerFirst'
  <2> SUFFICES ASSUME "no_marker" \notin mishaps PROVE MarkerFirst'
    BY <1>2
  <2>1. MarkerFirst
    BY <1>1
  <2>2. marker /\ \A e \in Daemons : pc[e] # "rebooting" /\ pc[e] # "marking"
    BY <1>1, <1>2, <2>1 DEF MarkerFirst, TypeOK
  <2>3. \A e \in Daemons : pc'[e] = pc[e] \/ pc'[e] = "off"
    BY <1>1, <1>2 DEF TypeOK
  <2>4. QED
    BY <1>2, <2>1, <2>2, <2>3 DEF MarkerFirst
<1>8. QED
  BY <1>3, <1>4, <1>5, <1>6, <1>7 DEF IInv

LEMMA DieInv == ASSUME IInv, NEW d \in Daemons, Die(d) PROVE IInv'
<1>1. /\ TypeOK /\ FilesInOrder /\ LockExclusive /\ PidKept
      /\ "no_marker" \notin mishaps => MarkerFirst
  BY DEF IInv
<1>2. /\ pc[d] # "off"
      /\ mishaps' = IF pc[d] = "rebooting" THEN mishaps \cup {"died_rebooting"} ELSE mishaps
      /\ pc' = [pc EXCEPT ![d] = "off"]
      /\ fd' = [fd EXCEPT ![d] = NoFile]
      /\ UNCHANGED <<path, pid, marker, unlinks, reboot_runs>>
  BY DEF Die, Goto, Exit
<1>3. TypeOK'
  BY <1>1, <1>2 DEF TypeOK, PCs, Mishaps
<1>4. FilesInOrder'
  BY <1>1, <1>2 DEF TypeOK, FilesInOrder, Inodes, NoFile
<1>5. LockExclusive'
  <2>1. Active' \subseteq Active \ {d} /\ Active \subseteq Daemons
    BY <1>1, <1>2 DEF TypeOK, Active, Holding
  <2>2. \A e \in Active' : fd'[e] = fd[e]
    BY <1>1, <1>2, <2>1 DEF TypeOK
  <2>3. QED
    BY <1>1, <2>1, <2>2 DEF LockExclusive
<1>6. PidKept'
  BY <1>1, <1>2 DEF TypeOK, PidKept, Holding
<1>7. "no_marker" \notin mishaps' => MarkerFirst'
  <2> SUFFICES ASSUME "no_marker" \notin mishaps PROVE MarkerFirst'
    BY <1>2
  <2>1. MarkerFirst
    BY <1>1
  <2>2. pc'[d] = "off" /\ \A e \in Daemons \ {d} : pc'[e] = pc[e]
    BY <1>1, <1>2 DEF TypeOK
  <2>3. mishaps \subseteq mishaps' /\ (pc[d] = "rebooting" => "died_rebooting" \in mishaps')
    BY <1>2
  <2>4. QED
    BY <1>2, <2>1, <2>2, <2>3 DEF MarkerFirst
<1>8. QED
  BY <1>3, <1>4, <1>5, <1>6, <1>7 DEF IInv

\* The invariant holds in every reachable state.
THEOREM Invariance == Spec => []IInv
<1>1. Init => IInv
  BY InitInv
<1>2. IInv /\ [Next]_vars => IInv'
  <2> SUFFICES ASSUME IInv, [Next]_vars PROVE IInv'
    OBVIOUS
  <2>1. ASSUME NEW d \in Daemons, Main(d) PROVE IInv'
    BY <2>1, OpenInv, LockInv, LockFailsInv, WritePidInv, CheckMarkerInv,
       CreateMarkerInv, CreateMarkerFailsInv, RunRebootInv, UnlockInv, UnlinkInv
       DEF Main
  <2>2. ASSUME NEW d \in Daemons, Die(d) PROVE IInv'
    BY <2>2, DieInv
  <2>3. CASE HostReboot
    BY <2>3, HostRebootInv
  <2>4. CASE UNCHANGED vars
    BY <2>4 DEF vars, IInv, TypeOK, FilesInOrder, LockExclusive, PidKept, MarkerFirst,
                Active
  <2>5. QED
    BY <2>1, <2>2, <2>3, <2>4 DEF Next
<1>3. QED
  BY <1>1, <1>2, PTL DEF Spec

-----------------------------------------------------------------------------
(* The properties.                                                         *)

\* Type correctness of the lifecycle.
THEOREM TypeCorrect == Spec => []TypeOK
<1>1. IInv => TypeOK
  BY DEF IInv
<1>2. QED
  BY <1>1, Invariance, PTL

\* Each removal of the pid file lets at most one more daemon past the lock: the
\* daemons hold different inodes, and there is one inode more than removals.
THEOREM OneMorePerUnlinkHolds == Spec => []OneMorePerUnlink
<1>1. IInv => OneMorePerUnlink
  <2> SUFFICES ASSUME IInv PROVE OneMorePerUnlink
    OBVIOUS
  <2> DEFINE f == [d \in Active |-> fd[d]]
             T == 1..(unlinks + 1)
  <2>1. TypeOK /\ FilesInOrder /\ LockExclusive
    BY DEF IInv
  <2>2. unlinks \in Nat
    BY <2>1, Numbers
  <2>3. ASSUME NEW d \in Active PROVE fd[d] \in T
    <3>1. d \in Daemons /\ pc[d] # "off"
      BY DEF Active, Holding
    <3>2. fd[d] \in Int /\ 1 <= fd[d] /\ fd[d] <= unlinks + 1
      BY <2>1, <3>1, Numbers DEF FilesInOrder
    <3>3. QED
      BY <3>2, <2>2
  <2>4. f \in Injection(Active, T)
    <3>1. f \in [Active -> T]
      BY <2>3
    <3>2. \A a, b \in Active : f[a] = f[b] => a = b
      BY <2>1 DEF LockExclusive
    <3>3. QED
      BY <3>1, <3>2 DEF Injection, IsInjective
  <2>5. IsFiniteSet(T) /\ Cardinality(T) = unlinks + 1
    BY <2>2, FS_Interval
  <2>6. Cardinality(Active) <= Cardinality(T)
    BY <2>4, <2>5, FS_Injection
  <2>7. QED
    BY <2>5, <2>6 DEF OneMorePerUnlink
<1>2. QED
  BY <1>1, Invariance, PTL

\* The pid file names the daemon while none has shut down.
THEOREM PidFileNamesDaemonHolds == Spec => []PidFileNamesDaemon
<1>1. IInv => PidFileNamesDaemon
  <2> SUFFICES ASSUME IInv, NEW d \in Daemons, unlinks = 0,
                      pc[d] \in {"started", "marking", "rebooting", "looping"}
               PROVE  \/ path # NoFile /\ pid[path] = d
                      \/ "no_pid" \in mishaps
    BY DEF PidFileNamesDaemon
  <2>1. TypeOK /\ FilesInOrder /\ PidKept
    BY DEF IInv
  <2>2. fd[d] \in Int /\ 1 <= fd[d] /\ fd[d] <= 1 /\ path # NoFile
    BY <2>1, Numbers DEF FilesInOrder
  <2>3. path = fd[d]
    BY <2>1, <2>2 DEF FilesInOrder
  <2>4. QED
    BY <2>1, <2>2, <2>3 DEF PidKept, Holding
<1>2. QED
  BY <1>1, Invariance, PTL

\* @reboot jobs are started at most once per boot.
THEOREM RebootAtMostOnceHolds == Spec => []RebootAtMostOnce
<1>1. IInv => RebootAtMostOnce
  <2> SUFFICES ASSUME IInv, "no_marker" \notin mishaps
               PROVE  ~(reboot_runs > 1)
    BY DEF RebootAtMostOnce
  <2>1. reboot_runs <= 1
    BY Zenon DEF IInv, MarkerFirst
  <2>2. reboot_runs \in Nat
    BY Numbers, Zenon DEF IInv
  <2>3. QED
    BY <2>1, <2>2
<1>2. QED
  BY <1>1, Invariance, PTL

\* Only the death of a daemon that is starting them loses the @reboot jobs.
THEOREM RebootLostOnlyByDeathHolds == Spec => []RebootLostOnlyByDeath
<1>1. IInv => RebootLostOnlyByDeath
  <2> SUFFICES ASSUME IInv, NEW d \in Daemons, pc[d] = "looping", ~(reboot_runs > 0),
                      "no_marker" \notin mishaps
               PROVE  "died_rebooting" \in mishaps
    BY DEF RebootLostOnlyByDeath, RebootNotLost
  <2>1. MarkerFirst /\ TypeOK
    BY DEF IInv
  <2>n. reboot_runs \in Nat
    BY <2>1, Numbers, Zenon
  <2>2. reboot_runs = 0
    BY <2>n
  <2>3. QED
    BY <2>1, <2>2 DEF MarkerFirst
<1>2. QED
  BY <1>1, Invariance, PTL
=============================================================================
