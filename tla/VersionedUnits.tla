--------------------------- MODULE VersionedUnits ---------------------------
(***************************************************************************)
(* What the unit store promises its callers, with no locks, transactions   *)
(* or connections (src/apps/server/src/storage/store.ts, `interface        *)
(* Store`): a unit is a history of versions numbered 1, 2, 3...; putBundle *)
(* writes version HEAD+1 in one step, refuses a parent that is not HEAD    *)
(* unless forced, and refuses a new unit over the org's skill limit;       *)
(* deleteBundle removes the unit and its history in one step.              *)
(***************************************************************************)
EXTENDS Integers, Sequences, FiniteSets

CONSTANTS
    Units,          \* unit keys (scope, agent, project, name) of one org
    Versions,       \* records with at least the fields parent and forced
    SkillLimits,    \* values orgs.max_skills may take
    NoLimit         \* null in that column: unlimited

VARIABLES
    history,        \* history[u] is the sequence of versions of u
    maxSkills       \* the org's current skill limit

avars == <<history, maxSkills>>

\* Units with at least one version.
Live == {u \in Units : history[u] # <<>>}

HasRoom == maxSkills = NoLimit \/ Cardinality(Live) < maxSkills

-----------------------------------------------------------------------------

\* Units may predate the observation, each with its first version.
AInit ==
    /\ history \in [Units -> {<<>>} \cup {<<m>> : m \in Versions}]
    /\ maxSkills \in SkillLimits

\* A new unit appears with one version, within the limit.
Create(u) ==
    /\ history[u] = <<>>
    /\ HasRoom
    /\ \E m \in Versions :
          /\ m.forced \/ m.parent = 0
          /\ history' = [history EXCEPT ![u] = <<m>>]
    /\ UNCHANGED maxSkills

\* A version is appended; its parent is the HEAD it replaces unless forced.
Extend(u) ==
    /\ history[u] # <<>>
    /\ \E m \in Versions :
          /\ m.forced \/ m.parent = Len(history[u])
          /\ history' = [history EXCEPT ![u] = Append(@, m)]
    /\ UNCHANGED maxSkills

Remove(u) ==
    /\ history[u] # <<>>
    /\ history' = [history EXCEPT ![u] = <<>>]
    /\ UNCHANGED maxSkills

SetLimit ==
    /\ maxSkills' \in SkillLimits
    /\ UNCHANGED history

ANext ==
    \/ \E u \in Units : Create(u) \/ Extend(u) \/ Remove(u)
    \/ SetLimit

ASpec == AInit /\ [][ANext]_avars
=============================================================================
