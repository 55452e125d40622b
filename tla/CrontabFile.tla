---------------------------- MODULE CrontabFile ----------------------------
(***************************************************************************)
(* What crontab(1) promises about the crontabs: whoever looks at one finds *)
(* none or a complete one that has passed the check and belongs to its     *)
(* user.  "Replaced atomically" (README), whatever happens to the commands *)
(* that replace and remove it.                                             *)
(***************************************************************************)
CONSTANTS Users, Valid, Absent

VARIABLE crontab

Init == crontab \in [Users -> Valid \cup {Absent}]

Install(u) == \E t \in Valid : crontab' = [crontab EXCEPT ![u] = t]

Remove(u) == crontab[u] # Absent /\ crontab' = [crontab EXCEPT ![u] = Absent]

Next == \E u \in Users : Install(u) \/ Remove(u)

Spec == Init /\ [][Next]_crontab
=============================================================================
