---------------------------- MODULE MCProfileCatalog ----------------------------
(* Symmetric callers, profile IDs and start times for ProfileCatalog.         *)
EXTENDS ProfileCatalog, TLC

Symmetries ==
  Permutations(Callers) \cup Permutations(Ids) \cup Permutations(Stamps)

\* At most one profile under profiles/ to begin with, every old database with
\* its log, and one of each kind of database at the two kinds of place.
MCInit ==
  /\ Init
  /\ Cardinality({i \in Ids : dir[i] = "present"}) <= 1
  /\ \A i \in Ids : main[i] \in {"none", "populated", "older"}
  /\ main[Root] # "older"
  /\ \A r \in Places : wal[r] <=> main[r] \in {"older", "corrupt"}

\* Bound: recovery plans shown at the same time are of one profile.
MCNext ==
  /\ Next
  /\ \A c, d \in Callers :
       call'[c].plan # NoPlan /\ call'[d].plan # NoPlan => call'[c].plan.key = call'[d].plan.key

MCSpec == MCInit /\ [][MCNext]_vars
================================================================================
