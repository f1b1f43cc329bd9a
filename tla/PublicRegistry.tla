-------------------------- MODULE PublicRegistry ---------------------------
(***************************************************************************)
(* What the public registry promises of a ref @<org>/<name>: its versions  *)
(* are a sequence of file lists that only grows and never repeats one, and *)
(* without a version number it resolves to the newest one not hidden       *)
(* (src/apps/server/src/storage/registry.ts, getPublished).                *)
(***************************************************************************)
EXTENDS Integers, Sequences

CONSTANTS
    Refs,           \* @<org>/<name>
    Files           \* file lists a version can pin

VARIABLES
    published,      \* published[ref] is the sequence of file lists of ref
    withdrawn,      \* the version numbers of ref that are hidden
    off,            \* refs that are hidden as a whole
    resolves        \* the version ref resolves to, 0 when there is none

avars == <<published, withdrawn, off, resolves>>

\* The newest of the first n versions that are not in hidden.
Newest(n, hidden) ==
    IF (1..n) \ hidden = {} THEN 0 ELSE CHOOSE v \in (1..n) \ hidden :
                                           \A w \in (1..n) \ hidden : w <= v

AInit ==
    /\ published = [ref \in Refs |-> <<>>]
    /\ withdrawn = [ref \in Refs |-> {}]
    /\ off = {}
    /\ resolves = [ref \in Refs |-> 0]

\* A new version is the one the ref resolves to, and brings a hidden ref back.
APublish(ref) ==
    \E f \in Files \ {published[ref][v] : v \in DOMAIN published[ref]} :
        /\ published' = [published EXCEPT ![ref] = Append(@, f)]
        /\ off' = off \ {ref}
        /\ resolves' = [resolves EXCEPT ![ref] = Len(published'[ref])]
        /\ UNCHANGED withdrawn

\* One version is hidden or restored.
AMark(ref) ==
    \E v \in DOMAIN published[ref] :
        /\ \E hidden \in {withdrawn[ref] \cup {v}, withdrawn[ref] \ {v}} :
              /\ withdrawn' = [withdrawn EXCEPT ![ref] = hidden]
              /\ resolves' = [resolves EXCEPT ![ref] = Newest(Len(published[ref]), hidden)]
        /\ UNCHANGED <<published, off>>

\* The ref is hidden or restored as a whole.
AFlag(ref) ==
    /\ published[ref] # <<>>
    /\ off' \in {off \cup {ref}, off \ {ref}}
    /\ UNCHANGED <<published, withdrawn, resolves>>

ANext == \E ref \in Refs : APublish(ref) \/ AMark(ref) \/ AFlag(ref)

ASpec == AInit /\ [][ANext]_avars
=============================================================================
