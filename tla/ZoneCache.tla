----------------------------- MODULE ZoneCache -----------------------------
(***************************************************************************)
(* ZoneCache::get (tz.rs): zones by value, parsed once per file identity,  *)
(* while the files change under it.  A get is split where the file system  *)
(* can change between two of its calls.                                    *)
(*                                                                         *)
(* A path names an inode or none; an inode has a content and the metadata  *)
(* that, with its number, identifies a version of it.  Every write changes *)
(* the metadata; to name another inode, as a rename or a symlink does,     *)
(* need not.                                                               *)
(***************************************************************************)
EXTENDS Naturals, Sequences, SequencesExt, FiniteSets

CONSTANTS
    Values,         \* the TZ values asked for, none of them empty
    Paths,          \* the paths they and TZDEFRULES stand for
    zone_path,      \* the path of each value
    TZDEFRULES,     \* $TZDIR/posixrules
    Consulting,     \* values with a DST name but no rules
    Inodes, None,
    Good, Bad, Huge, \* contents that parse, one that does not, and one too large
    capacity, MaxGets, MaxChanges

Contents == Good \cup {Bad, Huge}

ASSUME ZoneAssumption ==
    /\ zone_path \in [Values -> Paths] /\ TZDEFRULES \in Paths /\ Consulting \subseteq Values
    /\ {capacity, MaxGets, MaxChanges} \subseteq Nat
    /\ {Bad, Huge} \cap Good = {}
    /\ None \notin Inodes \cup Contents \cup Values \cup (Inodes \X Nat)

VARIABLES
    at,             \* the inode of each path, if it is a regular file
    inode,          \* content and metadata of each inode
    changes,        \* how often the environment has moved
    entries,        \* the cache: key |-> value
    order,          \* its keys, least recently used first
    pc, value,      \* the get that runs
    probed, handle, \* its identities: of the path, of the opened file
    zone,           \* what it returned
    gets,
    \* history
    named, seen,    \* the inodes that a path named since the get began, and their contents
    failed,         \* opening or reading failed
    recency         \* all keys that were ever used, most recent first

files == <<at, inode, changes>>
cache == <<entries, order>>
call  == <<pc, value, probed, handle, zone, gets>>
vars  == <<files, cache, call, named, seen, failed, recency>>

-----------------------------------------------------------------------------
(* The files.                                                              *)

FileId(i) == <<i, inode[i].meta>>

probe(p) == IF at[p] = None THEN None ELSE FileId(at[p])

\* What parse_tzif makes of a content.
Parsed(c) == IF c \in Good THEN c ELSE None

\* Of interest while a get runs.
Observe ==
    IF pc = "idle" THEN UNCHANGED <<named, seen>>
    ELSE /\ named' = [p \in Paths |-> named[p] \cup ({at'[p]} \ {None})]
         /\ seen' = [p \in Paths |-> seen[p] \cup {inode'[i].content : i \in named'[p]}
                                             \cup (IF at'[p] = None THEN {None} ELSE {})]

Point(p) ==
    /\ \E i \in Inodes \cup {None} : at' = [at EXCEPT ![p] = i]
    /\ UNCHANGED inode

Write(i) ==
    /\ \E c \in Contents : inode' = [inode EXCEPT ![i] = [content |-> c, meta |-> @.meta + 1]]
    /\ UNCHANGED at

ChangeFiles ==
    /\ changes < MaxChanges /\ changes' = changes + 1
    /\ (\E p \in Paths : Point(p)) \/ (\E i \in Inodes : Write(i))
    /\ Observe
    /\ UNCHANGED <<cache, call, failed, recency>>

-----------------------------------------------------------------------------
(* The cache.                                                              *)

File(id) == <<"file", id>>
Posix(v) == <<"posix", v>>

Use(k) == recency' = <<k>> \o RemoveFirst(recency, k)

Bump(o, k) == Append(RemoveFirst(o, k), k)

\* Slip: a hit is no use.
lookup_only(k) == k \in DOMAIN entries /\ Use(k) /\ UNCHANGED cache

\* A hit marks the entry as the most recently used.
lookup(k) == k \in DOMAIN entries /\ Use(k) /\ order' = Bump(order, k) /\ UNCHANGED entries

\* All but the oldest beyond the capacity.
Latest(s) == SubSeq(s, 1 + (IF Len(s) > capacity THEN Len(s) - capacity ELSE 0), Len(s))

\* Store, and evict what was not used for longest beyond the capacity.
insert(k, v) ==
    LET kept == Latest(Bump(order, k))
    IN  /\ order' = kept
        /\ entries' = [x \in ToSet(kept) |-> IF x = k THEN v ELSE entries[x]]
        /\ Use(k)

-----------------------------------------------------------------------------
(* ZoneCache::get.                                                         *)

Goto(l) == pc' = l /\ UNCHANGED <<value, probed, handle, zone, gets>>

Return(z) == pc' = "idle" /\ zone' = z /\ UNCHANGED <<value, probed, handle, gets>>

\* A zone from a file is its content; one from a string depends on posixrules.
FileZone(c)     == [value |-> value, file |-> c, rules |-> None, excused |-> FALSE]
PosixZone(r, x) == [value |-> value, file |-> None, rules |-> r, excused |-> x]

Now(p) == IF at[p] = None THEN None ELSE inode[at[p]].content

Begin ==
    /\ pc = "idle" /\ gets < MaxGets
    /\ gets' = gets + 1
    /\ value' \in Values
    /\ pc' = "probe" /\ zone' = None
    /\ named' = [p \in Paths |-> {at[p]} \ {None}]
    /\ seen' = [p \in Paths |-> {Now(p)}]
    /\ failed' = FALSE
    /\ UNCHANGED <<files, cache, probed, handle, recency>>

Probe ==
    LET id == probe(zone_path[value]) IN
    /\ pc = "probe"
    /\ probed' = id
    /\ \/ id = None /\ pc' = "posix" /\ UNCHANGED <<zone, cache, recency>>
       \/ /\ id # None /\ lookup(File(id))
          /\ IF entries[File(id)] = None THEN pc' = "posix" /\ UNCHANGED zone
             ELSE pc' = "idle" /\ zone' = FileZone(entries[File(id)])
       \/ id # None /\ File(id) \notin DOMAIN entries /\ pc' = "open" /\ UNCHANGED <<zone, cache, recency>>
    /\ UNCHANGED <<files, value, handle, gets, named, seen, failed>>

\* open_zone up to the read: the identity is that of the opened file.
Open ==
    LET p == zone_path[value] IN
    /\ pc = "open"
    /\ \/ /\ at[p] = None
          /\ Goto("posix") /\ UNCHANGED <<cache, recency, failed>>
       \/ /\ at[p] # None /\ Now(p) = Huge
          /\ insert(File(probe(p)), None) /\ Goto("posix") /\ UNCHANGED failed
       \/ /\ at[p] # None /\ Now(p) # Huge
          /\ handle' = probe(p) /\ pc' = "read"
          /\ UNCHANGED <<cache, recency, failed, value, probed, zone, gets>>
    /\ UNCHANGED <<files, named, seen>>

\* The re-open through /proc or the read fails.
ReadFails ==
    /\ pc = "read"
    /\ failed' = TRUE
    /\ Goto("posix")
    /\ UNCHANGED <<files, cache, named, seen, recency>>

\* Slip: the entry is keyed with the identity that was probed.
ReadForProbed ==
    LET c == inode[handle[1]].content IN
    /\ pc = "read" /\ c # Huge
    /\ insert(File(probed), Parsed(c))
    /\ IF Parsed(c) # None THEN Return(FileZone(c)) ELSE Goto("posix")
    /\ UNCHANGED <<files, named, seen, failed>>

\* The content may be newer than the identity.
Read ==
    LET c == inode[handle[1]].content IN
    /\ pc = "read"
    /\ IF c = Huge THEN Goto("posix") /\ UNCHANGED <<cache, recency>>
       ELSE /\ insert(File(handle), Parsed(c))
            /\ IF Parsed(c) # None THEN Return(FileZone(c)) ELSE Goto("posix")
    /\ UNCHANGED <<files, named, seen, failed>>

\* Slip: a string that was resolved once stays so.
RulesCurrent_always(e) == TRUE

RulesCurrent(e) == e.posixrules \in {<< >>, <<probe(TZDEFRULES)>>}

CachedPosix ==
    LET k == Posix(value) IN
    /\ pc = "posix"
    /\ \/ /\ lookup(k)
          /\ IF RulesCurrent(entries[k]) THEN Return(entries[k].zone) ELSE Goto("resolve")
       \/ k \notin DOMAIN entries /\ Goto("resolve") /\ UNCHANGED <<cache, recency>>
    /\ UNCHANGED <<files, named, seen, failed>>

\* resolve_posix probes posixrules, if the string needs it ...
Resolve ==
    /\ pc = "resolve"
    /\ IF value \in Consulting
       THEN pc' = "load_rules" /\ handle' = probe(TZDEFRULES) /\ UNCHANGED <<value, probed, zone, gets, cache, recency>>
       ELSE LET z == PosixZone(None, FALSE)
            IN  insert(Posix(value), [zone |-> z, posixrules |-> << >>]) /\ Return(z)
    /\ UNCHANGED <<files, named, seen, failed>>

\* ... and loads it; the string is good without.
LoadRules ==
    /\ pc = "load_rules"
    /\ \E r \in {Parsed(Now(TZDEFRULES)), None} :
          LET failing == r = None /\ Parsed(Now(TZDEFRULES)) # None
              z == PosixZone(r, failing \/ probe(TZDEFRULES) # handle)
          IN  insert(Posix(value), [zone |-> z, posixrules |-> <<handle>>]) /\ Return(z)
    /\ UNCHANGED <<files, named, seen, failed>>

get == \/ Begin \/ Probe \/ Open \/ ReadFails \/ Read
       \/ CachedPosix \/ Resolve \/ LoadRules

Init ==
    /\ at \in [Paths -> Inodes \cup {None}]
    /\ inode \in [Inodes -> [content : Contents, meta : {0}]]
    /\ changes = 0 /\ gets = 0
    /\ entries = << >> /\ order = << >> /\ recency = << >>
    /\ pc = "idle" /\ value \in Values
    /\ probed = None /\ handle = None /\ zone = None
    /\ named = [p \in Paths |-> {}] /\ seen = [p \in Paths |-> {}] /\ failed = FALSE

Next == ChangeFiles \/ get

Spec == Init /\ [][Next]_vars

-----------------------------------------------------------------------------
(* Properties.                                                             *)

Returned == pc = "idle" /\ zone # None

\* "A replaced, rewritten, created or removed zone file is picked up on the next
\* lookup": a zone of a file is a content that its file had during the get, one
\* of a string is returned only if the path had no usable file for a moment, or
\* reading it failed.
FreshZone ==
    Returned =>
        IF zone.file # None THEN zone.file \in seen[zone_path[value]]
        ELSE failed \/ seen[zone_path[value]] \ Good # {}

\* The same for the rules of a string, unless posixrules could not be read or
\* changed just when the string was resolved.
FreshRules ==
    Returned /\ zone.file = None /\ value \in Consulting /\ ~zone.excused =>
        \E c \in seen[TZDEFRULES] : Parsed(c) = zone.rules

\* ... without that exception.  A posixrules that could not be read is cached
\* like one that is not there, and one that is pointed elsewhere for the moment
\* between the probe and the load leaves the rules of the other file: both stay.
FreshRulesAlways ==
    Returned /\ zone.file = None /\ value \in Consulting =>
        \E c \in seen[TZDEFRULES] : Parsed(c) = zone.rules

\* "At most capacity entries are held; the least recently used one is evicted":
\* at any time the cache holds exactly the keys that were used last.
LeastRecentlyUsedEvicted ==
    LET n == IF Len(recency) < capacity THEN Len(recency) ELSE capacity
    IN  DOMAIN entries = {recency[i] : i \in 1 .. n}
=============================================================================
