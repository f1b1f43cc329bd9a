---------------------------- MODULE WebAppProofs ----------------------------
(***************************************************************************)
(* Proofs about WebApp for any credentials, keys, screens and writes:      *)
(* nothing of another's is shown, and no write the tab made is unseen.     *)
(***************************************************************************)
EXTENDS WebApp, TLAPS

\* Types of what a step puts into a variable.
LEMMA Typed ==
    ASSUME TypeOK
    PROVE  /\ Who \in Maybe(Users) /\ Ask \in Request
           /\ \A r \in Request : Answer(r) \in Request
           /\ \A ks : Flagged(ks) \in [Keys -> Maybe(Entry)]
           /\ Nothing \in [Keys -> Maybe(Entry)] /\ Nothing \in [Keys -> Maybe(Request)]
<1>1. Who \in Maybe(Users)
  BY DEF TypeOK, Who, Bearer, Maybe, Users
<1>2. 0 \in Version
  BY BoundAssumption DEF Version
<1>3. Ask \in Request
  BY <1>1, <1>2 DEF Ask, Request
<1>4. \A r \in Request : Answer(r) \in Request
  BY DEF Answer, Request, TypeOK
<1>5. \A ks : Flagged(ks) \in [Keys -> Maybe(Entry)]
  BY DEF Flagged, TypeOK, Maybe, Entry
<1> QED
  BY <1>1, <1>3, <1>4, <1>5 DEF Nothing, Maybe

\* An invalidation changes no owner and no version.
LEMMA FlaggedKeeps ==
    ASSUME TypeOK, NEW ks, NEW k \in Keys
    PROVE  IF cache[k] = None THEN Flagged(ks)[k] = None
           ELSE /\ Flagged(ks)[k] # None
                /\ Flagged(ks)[k].owner = cache[k].owner
                /\ Flagged(ks)[k].ver = cache[k].ver
                /\ ~Flagged(ks)[k].invalid => ~cache[k].invalid /\ k \notin ks
<1> USE DEF Flagged
<1>1. CASE cache[k] = None
  BY <1>1
<1>2. CASE cache[k] # None
  <2>1. cache[k] \in Entry
    BY <1>2 DEF TypeOK, Maybe
  <2>2. CASE k \notin ks
    BY <1>2, <2>2
  <2>3. CASE k \in ks
    <3>1. Flagged(ks)[k] = [cache[k] EXCEPT !.invalid = TRUE]
      BY <1>2, <2>3
    <3>2. \A e \in Entry : /\ [e EXCEPT !.invalid = TRUE] \in Entry
                           /\ [e EXCEPT !.invalid = TRUE].owner = e.owner
                           /\ [e EXCEPT !.invalid = TRUE].ver = e.ver
                           /\ [e EXCEPT !.invalid = TRUE].invalid = TRUE
      BY DEF Entry
    <3> QED
      BY <1>2, <2>1, <3>1, <3>2, NoneAssumption
  <2> QED
    BY <2>2, <2>3
<1> QED
  BY <1>1, <1>2

-----------------------------------------------------------------------------
(* Whose answers the tab has.                                              *)

\* What is in Held, and that there is nothing else.
LEMMA InHeld ==
    ASSUME TypeOK, AnswersOwned
    PROVE  /\ Held \subseteq Users /\ Loose \subseteq Held
           /\ pasted # None => pasted.as \in Loose
           /\ \A c \in Clicks :
                 writing[c] # None /\ writing[c].kind = "updateOrg" => writing[c].as \in Loose
           /\ \A k \in Keys : /\ cache[k] # None => cache[k].owner \in Held
                              /\ fetch[k] # None => fetch[k].as \in Held \cup {None}
<1>1. \A c \in Clicks : writing[c] # None => writing[c].as \in Users
  BY DEF TypeOK, Maybe, Order
<1>2. \A k \in Keys : /\ cache[k] # None => cache[k].owner \in Users
                      /\ fetch[k] # None => fetch[k].as \in Users \cup {None}
  BY DEF TypeOK, Maybe, Entry, Request
<1>3. pasted # None => pasted.as \in Users
  BY DEF AnswersOwned
<1> QED
  BY <1>1, <1>2, <1>3 DEF Held, Loose

\* Nothing is held for anybody outside T if what is pasted, renamed, cached and asked for is of T.
LEMMA HeldWithin ==
    ASSUME NEW T,
           pasted' # None => pasted'.as \in T,
           \A c \in Clicks : writing'[c] # None /\ writing'[c].kind = "updateOrg" => writing'[c].as \in T,
           \A k \in Keys : cache'[k] # None => cache'[k].owner \in T,
           \A k \in Keys : fetch'[k] # None => fetch'[k].as \in T \cup {None}
    PROVE  Held' \subseteq T
<1>1. None \notin Users
  BY UserAssumption
<1> QED
  BY <1>1 DEF Held, Loose

\* Nothing is added but the answers for the one who speaks.
LEMMA SpeaksOn ==
    ASSUME OneSpeaks, UNCHANGED <<stored, session, inherited>>, Held' \subseteq Held \cup {Who}
    PROVE  OneSpeaks'
<1>1. Who' = Who
  BY DEF Who
<1> QED
  BY <1>1 DEF OneSpeaks

\* Another comes to speak, and what is kept of others is noted.
LEMMA SpeaksNext ==
    ASSUME NEW u, Who' = u, KeepsFor(u), Held' \subseteq Held \cup {u}
    PROVE  OneSpeaks'
  BY DEF KeepsFor, Mixes, OneSpeaks

\* The tab is cleared, of all but what runs on.
LEMMA SpeaksCleared ==
    ASSUME NEW u, Who' = u, inherited' = Mixes(Loose, u), Held' \subseteq Loose \cup {u}
    PROVE  OneSpeaks'
  BY DEF Mixes, OneSpeaks

-----------------------------------------------------------------------------
(* The initial states, and one lemma for every kind of step.               *)

\* The tab starts empty.
LEMMA InitIInv == Init => IInv
<1> SUFFICES ASSUME Init
             PROVE  IInv
  OBVIOUS
<1> USE DEF Init
<1>1. 0 \in Version
  BY BoundAssumption DEF Version
<1>2. TypeOK
  BY <1>1, InstanceAssumption DEF TypeOK, Nothing, Maybe
<1>3. Known /\ AnswersOwned /\ Current
  BY DEF Known, AnswersOwned, Current, Nothing
<1>4. Held = {}
  BY DEF Held, Loose, Nothing
<1> QED
  BY <1>2, <1>3, <1>4 DEF IInv, OneSpeaks

\* What the queries do to the request and the answer under one key.
FetchStep(k) ==
    \/ fetch'[k] \in {None, fetch[k], Ask}
    \/ fetch[k] # None /\ fetch[k].as # None /\ fetch'[k] = Answer(fetch[k])

CacheStep(k) ==
    \/ cache'[k] \in {None, cache[k], Flagged({k})[k]}
    \/ /\ fetch[k] # None /\ fetch[k].step = "answered"
       /\ cache'[k] = [owner |-> fetch[k].as, ver |-> fetch[k].ver, invalid |-> FALSE]

\* Fields of what a query puts into the cache or asks.
LEMMA AskFields ==
    ASSUME TypeOK
    PROVE  /\ Ask.as = Who /\ Ask.step = "asked" /\ Ask.ver = 0
           /\ \A r \in Request : /\ Answer(r).as = r.as
                                 /\ Answer(r).step = "answered" /\ Answer(r).ver = server
  BY DEF Ask, Answer, Request

\* Screens and queries leave the credentials and the writes alone.
LEMMA QueryStep ==
    ASSUME IInv, UNCHANGED <<stored, session, pasted, writing, server, acked, inherited>>,
           screen' \in Screens,
           cache' = [k \in Keys |-> cache'[k]], fetch' = [k \in Keys |-> fetch'[k]],
           \A k \in Keys : FetchStep(k) /\ CacheStep(k)
    PROVE  IInv'
<1> USE DEF IInv
<1>1. ASSUME NEW k \in Keys
      PROVE  /\ fetch'[k] \in Maybe(Request)
             /\ fetch'[k] # None =>
                   /\ fetch'[k].ver <= server
                   /\ fetch'[k].as \in Held \cup {Who, None}
                   /\ fetch'[k].step = "answered" =>
                         /\ fetch'[k].as \in Users
                         /\ k # "org" => fetch'[k].ver >= acked[k]
  <2>1. fetch[k] \in Maybe(Request) /\ server \in Nat /\ acked[k] \in Nat /\ acked[k] <= server
    BY BoundAssumption DEF TypeOK, Known, Version
  <2>2. CASE fetch'[k] \in {None, fetch[k]}
    BY <2>1, <2>2, InHeld DEF Known, AnswersOwned, Current, Maybe
  <2>3. CASE fetch'[k] = Ask
    BY <2>1, <2>3, Typed, AskFields DEF Maybe
  <2>4. CASE fetch[k] # None /\ fetch[k].as # None /\ fetch'[k] = Answer(fetch[k])
    <3>1. fetch[k] \in Request
      BY <2>1, <2>4 DEF Maybe
    <3>2. /\ fetch'[k] \in Request /\ fetch'[k].as = fetch[k].as
          /\ fetch'[k].step = "answered" /\ fetch'[k].ver = server
      BY <2>4, <3>1, Typed, AskFields
    <3>3. fetch[k].as \in Users
      BY <2>4, <3>1 DEF Request, Maybe
    <3> QED
      BY <2>1, <2>4, <3>2, <3>3, InHeld DEF Maybe
  <2> QED
    BY <2>2, <2>3, <2>4 DEF FetchStep
<1>2. ASSUME NEW k \in Keys
      PROVE  /\ cache'[k] \in Maybe(Entry)
             /\ cache'[k] # None =>
                   /\ cache'[k].ver <= server
                   /\ cache'[k].owner \in Held
                   /\ k # "org" /\ ~cache'[k].invalid => cache'[k].ver >= acked[k]
  <2>1. cache[k] \in Maybe(Entry)
    BY DEF TypeOK
  <2>2. CASE cache'[k] \in {None, cache[k]}
    BY <2>1, <2>2, InHeld DEF Known, Current, Maybe
  <2>3. CASE cache'[k] = Flagged({k})[k]
    BY <2>3, FlaggedKeeps, Typed, InHeld DEF Known
  <2>4. CASE /\ fetch[k] # None /\ fetch[k].step = "answered"
             /\ cache'[k] = [owner |-> fetch[k].as, ver |-> fetch[k].ver, invalid |-> FALSE]
    <3>1. fetch[k].as \in Users /\ fetch[k].ver \in Version
      BY <2>4 DEF AnswersOwned, TypeOK, Maybe, Request
    <3>2. cache'[k] \in Entry
      BY <2>4, <3>1 DEF Entry
    <3>3. fetch[k].as \in Held
      BY <2>4, <3>1, InHeld, UserAssumption
    <3> QED
      BY <2>4, <3>2, <3>3 DEF Known, Current, Maybe
  <2> QED
    BY <2>2, <2>3, <2>4 DEF CacheStep
<1>3. TypeOK'
  BY <1>1, <1>2 DEF TypeOK
<1>4. Known' /\ AnswersOwned' /\ Current'
  BY <1>1, <1>2 DEF Known, AnswersOwned, Current
<1>5. OneSpeaks'
  <2> DEFINE T == Held \cup {Who}
  <2>1. /\ pasted' # None => pasted'.as \in T
        /\ \A c \in Clicks : writing'[c] # None /\ writing'[c].kind = "updateOrg" => writing'[c].as \in T
    BY InHeld
  <2>2. \A k \in Keys : /\ cache'[k] # None => cache'[k].owner \in T
                        /\ fetch'[k] # None => fetch'[k].as \in T \cup {None}
    BY <1>1, <1>2
  <2>3. Held' \subseteq Held \cup {Who}
    <3> HIDE DEF T
    <3>1. Held' \subseteq T
      BY <2>1, <2>2, HeldWithin
    <3> QED
      BY <3>1 DEF T
  <2> QED
    BY <2>3, SpeaksOn
<1> QED
  BY <1>3, <1>4, <1>5

\* A tab with nothing in it, or with first requests only.
LEMMA ClearedStep ==
    ASSUME IInv, NEW u, Who' = u, inherited' = Mixes(Loose, u),
           stored' \in Maybe(TokenUsers), session' \in Maybe(SessionUsers), screen' \in Screens,
           cache' = Nothing, fetch' = [k \in Keys |-> fetch'[k]],
           \A k \in Keys : fetch'[k] \in {None, [Ask EXCEPT !.as = u]},
           UNCHANGED <<pasted, writing, server, acked>>
    PROVE  IInv'
<1> USE DEF IInv
<1>1. u \in Maybe(Users)
  BY DEF Who, Bearer, Maybe, Users
<1>2. DEFINE r == [Ask EXCEPT !.as = u]
<1>3. r \in Request /\ r.as = u /\ r.step = "asked" /\ r.ver = 0
  BY <1>1, Typed, AskFields DEF Request
<1> HIDE DEF r
<1>4. \A k \in Keys : fetch'[k] \in {None, r}
  BY DEF r
<1>5. TypeOK'
  <2>1. fetch' \in [Keys -> Maybe(Request)]
    BY <1>3, <1>4 DEF Maybe
  <2>2. cache' \in [Keys -> Maybe(Entry)]
    BY Typed
  <2>3. inherited' \in BOOLEAN
    BY DEF Mixes
  <2> QED
    BY <2>1, <2>2, <2>3 DEF TypeOK
<1>6. \A k \in Keys : cache'[k] = None
  BY DEF Nothing
<1>7. Known'
  <2>1. server \in Nat
    BY BoundAssumption DEF TypeOK, Version
  <2> QED
    BY <1>3, <1>4, <1>6, <2>1 DEF Known
<1>8. AnswersOwned' /\ Current'
  BY <1>3, <1>4, <1>6 DEF AnswersOwned, Current
<1>9. OneSpeaks'
  <2> DEFINE T == Loose \cup {u}
  <2>1. /\ pasted' # None => pasted'.as \in T
        /\ \A c \in Clicks : writing'[c] # None /\ writing'[c].kind = "updateOrg" => writing'[c].as \in T
    BY InHeld
  <2>2. \A k \in Keys : /\ cache'[k] # None => cache'[k].owner \in T
                        /\ fetch'[k] # None => fetch'[k].as \in T \cup {None}
    BY <1>3, <1>4, <1>6
  <2>3. Held' \subseteq Loose \cup {u}
    <3> HIDE DEF T
    <3>1. Held' \subseteq T
      BY <2>1, <2>2, HeldWithin
    <3> QED
      BY <3>1 DEF T
  <2> QED
    BY <2>3, SpeaksCleared
<1> QED
  BY <1>5, <1>7, <1>8, <1>9

\* A credential comes or goes and the tab keeps what it has.
LEMMA CredentialStep ==
    ASSUME IInv, NEW u, Who' = u, KeepsFor(u),
           stored' \in Maybe(TokenUsers), session' \in Maybe(SessionUsers), screen' \in Screens,
           pasted' \in {None, pasted, [as |-> u, step |-> "asked", ver |-> 0]},
           pasted' \notin {None, pasted} => u # None /\ pasted = None,
           UNCHANGED <<cache, fetch, writing, server, acked>>
    PROVE  IInv'
<1> USE DEF IInv
<1> DEFINE r == [as |-> u, step |-> "asked", ver |-> 0]
<1>1. u \in Maybe(Users)
  BY DEF Who, Bearer, Maybe, Users
<1>2. server \in Nat /\ 0 \in Version
  BY BoundAssumption DEF TypeOK, Version
<1>3. r \in Request /\ r.as = u /\ r.step = "asked" /\ r.ver = 0
  BY <1>1, <1>2 DEF Request
<1>4. pasted' \in {None, pasted, r}
  OBVIOUS
<1>5. pasted' # None /\ pasted' # pasted => u \in Users
  BY <1>1 DEF Maybe
<1> HIDE DEF r
<1>6. TypeOK'
  <2>1. pasted' \in Maybe(Request)
    BY <1>3, <1>4 DEF TypeOK, Maybe
  <2>2. inherited' \in BOOLEAN
    BY DEF KeepsFor, Mixes, TypeOK
  <2> QED
    BY <2>1, <2>2 DEF TypeOK
<1>7. Known' /\ AnswersOwned' /\ Current'
  BY <1>2, <1>3, <1>4, <1>5 DEF Known, AnswersOwned, Current
<1>8. OneSpeaks'
  <2> DEFINE T == Held \cup {u}
  <2>1. /\ pasted' # None => pasted'.as \in T
        /\ \A c \in Clicks : writing'[c] # None /\ writing'[c].kind = "updateOrg" => writing'[c].as \in T
    BY <1>3, <1>4, InHeld
  <2>2. \A k \in Keys : /\ cache'[k] # None => cache'[k].owner \in T
                        /\ fetch'[k] # None => fetch'[k].as \in T \cup {None}
    BY InHeld
  <2>3. Held' \subseteq Held \cup {u}
    <3> HIDE DEF T
    <3>1. Held' \subseteq T
      BY <2>1, <2>2, HeldWithin
    <3> QED
      BY <3>1 DEF T
  <2> QED
    BY <2>3, SpeaksNext
<1> QED
  BY <1>6, <1>7, <1>8

\* The login form's own request is answered.
LEMMA ValidateStep == IInv /\ Validate => IInv'
<1> SUFFICES ASSUME IInv, Validate
             PROVE  IInv'
  OBVIOUS
<1> USE DEF IInv, Validate
<1>1. pasted \in Request
  BY DEF TypeOK, Maybe
<1>2. /\ pasted' \in Request /\ pasted'.as = pasted.as
      /\ pasted'.step = "answered" /\ pasted'.ver = server
  BY <1>1, Typed, AskFields
<1>3. server \in Nat /\ acked["whoami"] \in Nat /\ acked["whoami"] <= server
  BY BoundAssumption, InstanceAssumption DEF TypeOK, Known, Version
<1>4. TypeOK'
  BY <1>2 DEF TypeOK, Maybe
<1>5. Known' /\ AnswersOwned' /\ Current'
  BY <1>2, <1>3 DEF Known, AnswersOwned, Current
<1>6. Held' \subseteq Held \cup {Who}
  <2>1. \A u : (pasted' # None /\ pasted'.as = u) => (pasted # None /\ pasted.as = u)
    BY <1>2
  <2> QED
    BY <2>1 DEF Held, Loose
<1> QED
  BY <1>4, <1>5, <1>6, SpeaksOn

\* Its answer is who the tab is.
LEMMA LoginOkStep == IInv /\ LoginOk => IInv'
<1> SUFFICES ASSUME IInv, LoginOk
             PROVE  IInv'
  OBVIOUS
<1> USE DEF IInv, LoginOk
<1> DEFINE e == [owner |-> pasted.as, ver |-> pasted.ver, invalid |-> FALSE]
<1>1. pasted \in Request /\ pasted.as \in Users
  BY DEF TypeOK, Maybe, AnswersOwned
<1>2. e \in Entry /\ e.owner = pasted.as /\ e.ver = pasted.ver
  BY <1>1 DEF Entry, Request
<1>3. \A k \in Keys : IF k = "whoami" THEN cache'[k] = e ELSE cache'[k] = cache[k]
  BY DEF TypeOK
<1>4. cache' \in [Keys -> Maybe(Entry)]
  BY <1>2 DEF TypeOK, Maybe
<1> HIDE DEF e
<1>5. TypeOK'
  BY <1>4 DEF TypeOK, Maybe
<1>6. Known' /\ AnswersOwned' /\ Current'
  BY <1>2, <1>3 DEF Known, AnswersOwned, Current
<1>7. Held' \subseteq Held
  <2>1. /\ pasted' # None => pasted'.as \in Held
        /\ \A c \in Clicks : writing'[c] # None /\ writing'[c].kind = "updateOrg" => writing'[c].as \in Held
        /\ \A k \in Keys : /\ cache'[k] # None => cache'[k].owner \in Held
                           /\ fetch'[k] # None => fetch'[k].as \in Held \cup {None}
    BY <1>2, <1>3, InHeld
  <2> DEFINE T == Held
  <2>2. /\ pasted' # None => pasted'.as \in T
        /\ \A c \in Clicks : writing'[c] # None /\ writing'[c].kind = "updateOrg" => writing'[c].as \in T
        /\ \A k \in Keys : cache'[k] # None => cache'[k].owner \in T
        /\ \A k \in Keys : fetch'[k] # None => fetch'[k].as \in T \cup {None}
    BY <2>1
  <2> HIDE DEF T
  <2>3. Held' \subseteq T
    BY <2>2, HeldWithin
  <2> QED
    BY <2>3 DEF T
<1> QED
  BY <1>5, <1>6, <1>7, SpeaksOn

\* The page is loaded anew.
LEMMA ReloadStep == IInv /\ Reload => IInv'
<1> SUFFICES ASSUME IInv, Reload
             PROVE  IInv'
  OBVIOUS
<1> USE DEF IInv, Reload
<1>1. TypeOK'
  BY Typed, InstanceAssumption DEF TypeOK, Maybe
<1>2. Known' /\ AnswersOwned' /\ Current'
  BY DEF Known, AnswersOwned, Current, Nothing
<1>3. Held' = {}
  BY DEF Held, Loose, Nothing
<1> QED
  BY <1>1, <1>2, <1>3 DEF OneSpeaks

-----------------------------------------------------------------------------
(* Writes.                                                                 *)

\* A write begins, is made, is given up, or is somebody else's.
LEMMA WriteStep ==
    ASSUME IInv, UNCHANGED <<stored, session, screen, cache, fetch, pasted, acked, inherited>>,
           server' \in Version, server <= server',
           writing' = [c \in Clicks |-> writing'[c]],
           \A c \in Clicks :
              \/ writing'[c] \in {None, writing[c]}
              \/ /\ writing'[c] \in Order /\ writing'[c].ver <= server'
                 /\ \/ writing'[c].as = Who
                    \/ /\ writing[c] # None
                       /\ writing'[c].as = writing[c].as /\ writing'[c].kind = writing[c].kind
    PROVE  IInv'
<1> USE DEF IInv
<1>1. server \in Nat /\ server' \in Nat
  BY BoundAssumption DEF TypeOK, Version
<1>2. TypeOK'
  BY DEF TypeOK, Maybe
<1>3. Known'
  <2>1. /\ \A k \in Keys : /\ cache[k] # None => cache[k].ver \in Nat
                           /\ fetch[k] # None => fetch[k].ver \in Nat
                           /\ acked[k] \in Nat
        /\ pasted # None => pasted.ver \in Nat
        /\ \A c \in Clicks : writing[c] # None => writing[c].ver \in Nat
    BY BoundAssumption DEF TypeOK, Version, Maybe, Entry, Request, Order
  <2> QED
    BY <1>1, <2>1 DEF Known
<1>4. AnswersOwned' /\ Current'
  BY DEF AnswersOwned, Current
<1>5. Held' \subseteq Held \cup {Who}
  <2>1. \A c \in Clicks : writing'[c] # None /\ writing'[c].kind = "updateOrg" =>
                              writing'[c].as \in Held \cup {Who}
    BY InHeld
  <2> DEFINE T == Held \cup {Who}
  <2>2. /\ pasted' # None => pasted'.as \in T
        /\ \A c \in Clicks : writing'[c] # None /\ writing'[c].kind = "updateOrg" => writing'[c].as \in T
        /\ \A k \in Keys : cache'[k] # None => cache'[k].owner \in T
        /\ \A k \in Keys : fetch'[k] # None => fetch'[k].as \in T \cup {None}
    BY <2>1, InHeld
  <2> HIDE DEF T
  <2>3. Held' \subseteq T
    BY <2>2, HeldWithin
  <2> QED
    BY <2>3 DEF T
<1> QED
  BY <1>2, <1>3, <1>4, <1>5, SpeaksOn

\* A write is acknowledged: what it changed is marked and asked for again,
\* and no older answer can come for what is settled.
LEMMA AckStep ==
    ASSUME IInv, NEW d \in Clicks, NEW ks, NEW n \in Version, n <= server,
           UNCHANGED <<stored, session, screen, pasted, server, inherited>>,
           cache' = [k \in Keys |-> cache'[k]], fetch' = [k \in Keys |-> fetch'[k]],
           writing' = [writing EXCEPT ![d] = None],
           Acks(ks, n),
           \A k \in Keys : /\ \/ cache'[k] \in {None, Flagged(ks)[k]}
                              \/ /\ k = "org" /\ cache'[k] \in Entry
                                 /\ cache'[k].owner \in Held /\ cache'[k].ver = n
                           /\ \/ fetch'[k] \in {None, Ask}
                              \/ k \notin AskedAgain(ks) /\ fetch'[k] = fetch[k]
    PROVE  IInv'
<1> USE DEF IInv
<1>1. server \in Nat /\ n \in Nat /\ \A k \in Keys : acked[k] \in Nat /\ acked[k] <= server
  BY BoundAssumption DEF TypeOK, Version, Known
<1>2. ASSUME NEW k \in Keys
      PROVE  /\ acked'[k] \in Version /\ acked'[k] <= server
             /\ acked'[k] # acked[k] => k \in Settled(ks)
  BY <1>1 DEF Acks, TypeOK
<1>3. acked' \in [Keys -> Version]
  BY <1>2 DEF Acks
<1>4. ASSUME NEW k \in Keys
      PROVE  /\ cache'[k] \in Maybe(Entry)
             /\ cache'[k] # None =>
                   /\ cache'[k].ver <= server
                   /\ cache'[k].owner \in Held
                   /\ k # "org" /\ ~cache'[k].invalid => cache'[k].ver >= acked'[k]
  <2>1. CASE cache'[k] = None
    BY <2>1 DEF Maybe
  <2>2. CASE cache'[k] = Flagged(ks)[k] /\ cache'[k] # None
    <3>1. /\ cache[k] # None /\ cache'[k].owner = cache[k].owner /\ cache'[k].ver = cache[k].ver
          /\ ~cache'[k].invalid => ~cache[k].invalid /\ k \notin ks
      BY <2>2, FlaggedKeeps
    <3>2. k \notin ks => acked'[k] = acked[k]
      BY <1>2 DEF Settled
    <3>3. cache'[k] \in Maybe(Entry)
      BY <2>2, Typed
    <3> QED
      BY <2>2, <3>1, <3>2, <3>3, InHeld DEF Known, Current
  <2>3. CASE k = "org" /\ cache'[k] \in Entry /\ cache'[k].owner \in Held /\ cache'[k].ver = n
    BY <2>3, <1>1 DEF Maybe
  <2> QED
    BY <2>1, <2>2, <2>3
<1>5. ASSUME NEW k \in Keys
      PROVE  /\ fetch'[k] \in Maybe(Request)
             /\ fetch'[k] # None =>
                   /\ fetch'[k].ver <= server
                   /\ fetch'[k].as \in Held \cup {Who, None}
                   /\ fetch'[k].step = "answered" =>
                         /\ fetch'[k].as \in Users
                         /\ k # "org" => fetch'[k].ver >= acked'[k]
  <2>1. CASE fetch'[k] = None
    BY <2>1 DEF Maybe
  <2>2. CASE fetch'[k] = Ask
    BY <1>1, <2>2, Typed, AskFields DEF Maybe
  <2>3. CASE k \notin AskedAgain(ks) /\ fetch'[k] = fetch[k] /\ fetch[k] # None
    <3>1. acked'[k] = acked[k]
      <4>1. k \notin Settled(ks)
        BY <2>3 DEF Settled, AskedAgain
      <4> QED
        BY <1>2, <4>1
    <3>2. fetch[k] \in Maybe(Request)
      BY DEF TypeOK
    <3> QED
      BY <2>3, <3>1, <3>2, InHeld DEF Known, AnswersOwned, Current
  <2> QED
    BY <2>1, <2>2, <2>3
<1>6. pasted' # None /\ pasted'.step = "answered" => pasted'.ver >= acked'["whoami"]
  <2>1. "whoami" \in Keys
    BY InstanceAssumption
  <2>2. pasted # None => acked'["whoami"] = acked["whoami"]
    BY <1>2, <2>1 DEF Settled
  <2> QED
    BY <2>2 DEF Current
<1>7. \A c \in Clicks : writing'[c] \in {None, writing[c]}
  BY DEF TypeOK
<1>8. TypeOK'
  <2>1. writing' \in [Clicks -> Maybe(Order)]
    BY DEF TypeOK, Maybe
  <2> QED
    BY <1>3, <1>4, <1>5, <2>1 DEF TypeOK
<1>9. Known' /\ AnswersOwned' /\ Current'
  BY <1>2, <1>4, <1>5, <1>6, <1>7 DEF Known, AnswersOwned, Current
<1>10. Held' \subseteq Held \cup {Who}
  <2> DEFINE T == Held \cup {Who}
  <2>1. /\ pasted' # None => pasted'.as \in T
        /\ \A c \in Clicks : writing'[c] # None /\ writing'[c].kind = "updateOrg" => writing'[c].as \in T
        /\ \A k \in Keys : cache'[k] # None => cache'[k].owner \in T
        /\ \A k \in Keys : fetch'[k] # None => fetch'[k].as \in T \cup {None}
    BY <1>4, <1>5, <1>7, InHeld
  <2> HIDE DEF T
  <2>2. Held' \subseteq T
    BY <2>1, HeldWithin
  <2> QED
    BY <2>2 DEF T
<1> QED
  BY <1>8, <1>9, <1>10, SpeaksOn

-----------------------------------------------------------------------------
(* Every step preserves the invariant.                                     *)

\* A query that is asked, served, taken up, refused or forgotten.
LEMMA QueriesStep ==
    ASSUME IInv, NEW k \in Keys,
           Refetch(k) \/ Serve(k) \/ Retry(k) \/ Deliver(k) \/ Fail(k) \/ LeftAlone(k) \/ Collect(k)
    PROVE  IInv'
<1>1. TypeOK
  BY DEF IInv
<1>2. screen \in Screens
  BY <1>1 DEF TypeOK
<1>3. CASE Refetch(k) \/ Retry(k)
  <2>1. \A j \in Keys : FetchStep(j) /\ CacheStep(j)
    BY <1>1, <1>3 DEF Refetch, Retry, TypeOK, FetchStep, CacheStep
  <2>2. cache' = [j \in Keys |-> cache'[j]] /\ fetch' = [j \in Keys |-> fetch'[j]]
    BY <1>1, <1>3 DEF Refetch, Retry, TypeOK
  <2>3. UNCHANGED <<stored, session, screen, pasted, writing, server, acked, inherited>>
    BY <1>3 DEF Refetch, Retry
  <2> QED
    BY <1>2, <2>1, <2>2, <2>3, QueryStep
<1>4. CASE Serve(k)
  <2>1. \A j \in Keys : FetchStep(j) /\ CacheStep(j)
    BY <1>1, <1>4 DEF Serve, TypeOK, FetchStep, CacheStep
  <2>2. cache' = [j \in Keys |-> cache'[j]] /\ fetch' = [j \in Keys |-> fetch'[j]]
    BY <1>1, <1>4 DEF Serve, TypeOK
  <2>3. UNCHANGED <<stored, session, screen, pasted, writing, server, acked, inherited>>
    BY <1>4 DEF Serve
  <2> QED
    BY <1>2, <2>1, <2>2, <2>3, QueryStep
<1>5. CASE Deliver(k)
  <2>1. \A j \in Keys : FetchStep(j) /\ CacheStep(j)
    BY <1>1, <1>5 DEF Deliver, TypeOK, FetchStep, CacheStep
  <2>2. cache' = [j \in Keys |-> cache'[j]] /\ fetch' = [j \in Keys |-> fetch'[j]]
    BY <1>1, <1>5 DEF Deliver, TypeOK
  <2>3. UNCHANGED <<stored, session, screen, pasted, writing, server, acked, inherited>>
    BY <1>5 DEF Deliver
  <2> QED
    BY <1>2, <2>1, <2>2, <2>3, QueryStep
<1>6. CASE Fail(k) \/ LeftAlone(k)
  <2>1. \A j \in Keys : j # k => Flagged({k})[j] = cache[j]
    BY DEF Flagged
  <2>2. /\ cache' = Flagged({k}) /\ fetch' = [fetch EXCEPT ![k] = None]
        /\ screen' \in Screens
    BY <1>2, <1>6, InstanceAssumption DEF Fail, LeftAlone, Errs
  <2>3. \A j \in Keys : FetchStep(j) /\ CacheStep(j)
    BY <1>1, <2>1, <2>2 DEF TypeOK, FetchStep, CacheStep
  <2>4. cache' = [j \in Keys |-> cache'[j]] /\ fetch' = [j \in Keys |-> fetch'[j]]
    BY <1>1, <2>2 DEF Flagged, TypeOK
  <2>5. UNCHANGED <<stored, session, pasted, writing, server, acked, inherited>>
    BY <1>6 DEF Fail, LeftAlone
  <2> QED
    BY <2>2, <2>3, <2>4, <2>5, QueryStep
<1>7. CASE Collect(k)
  <2>1. \A j \in Keys : FetchStep(j) /\ CacheStep(j)
    BY <1>1, <1>7 DEF Collect, TypeOK, FetchStep, CacheStep
  <2>2. cache' = [j \in Keys |-> cache'[j]] /\ fetch' = [j \in Keys |-> fetch'[j]]
    BY <1>1, <1>7 DEF Collect, TypeOK
  <2>3. UNCHANGED <<stored, session, screen, pasted, writing, server, acked, inherited>>
    BY <1>7 DEF Collect
  <2> QED
    BY <1>2, <2>1, <2>2, <2>3, QueryStep
<1> QED
  BY <1>3, <1>4, <1>5, <1>6, <1>7

\* A screen that opens or is left for the login form.
LEMMA ScreenStep ==
    ASSUME IInv, SendToLogin \/ \E s \in Screens : Open(s)
    PROVE  IInv'
<1>1. TypeOK
  BY DEF IInv
<1>2. \A k \in Keys : FetchStep(k) /\ CacheStep(k)
  BY DEF SendToLogin, Open, FetchStep, CacheStep
<1>3. cache' = [k \in Keys |-> cache'[k]] /\ fetch' = [k \in Keys |-> fetch'[k]]
  BY <1>1 DEF SendToLogin, Open, TypeOK
<1>4. UNCHANGED <<stored, session, pasted, writing, server, acked, inherited>>
  BY DEF SendToLogin, Open
<1>5. screen' \in Screens
  BY InstanceAssumption DEF SendToLogin, Open
<1> QED
  BY <1>2, <1>3, <1>4, <1>5, QueryStep

\* The tab is signed out, by its user or by a 401.
LEMMA LogoutStep ==
    ASSUME IInv, Logout
    PROVE  IInv'
<1>1. Who' = session
  BY DEF Logout, Who, Bearer
<1>2. /\ stored' \in Maybe(TokenUsers) /\ session' \in Maybe(SessionUsers) /\ screen' \in Screens
      /\ inherited' = Mixes(Loose, session) /\ cache' = Nothing
      /\ UNCHANGED <<pasted, writing, server, acked>>
  BY InstanceAssumption DEF IInv, TypeOK, Logout, Maybe
<1>3. fetch' = [k \in Keys |-> fetch'[k]] /\ \A k \in Keys : fetch'[k] = None
  BY DEF Logout, Nothing
<1> QED
  BY <1>1, <1>2, <1>3, ClearedStep

\* The identity provider's session changes.
LEMMA SessionStep ==
    ASSUME IInv, NEW u \in Maybe(SessionUsers), SessionChange(u)
    PROVE  IInv'
<1> DEFINE w == Bearer(stored, u)
<1>1. Who' = w
  BY DEF SessionChange, Who, Bearer
<1>2. /\ stored' \in Maybe(TokenUsers) /\ session' \in Maybe(SessionUsers)
      /\ UNCHANGED <<pasted, writing, server, acked>>
  BY DEF IInv, TypeOK, SessionChange
<1>3. CASE session # None /\ u # None /\ screen # "login"
  <2>1. /\ cache' = Nothing /\ UNCHANGED screen
        /\ inherited' = Mixes(Loose, w)
        /\ fetch' = [k \in Keys |-> IF k \in Observed THEN [Ask EXCEPT !.as = w] ELSE None]
    BY <1>3 DEF SessionChange
  <2>2. screen' \in Screens
    BY <2>1 DEF IInv, TypeOK
  <2> HIDE DEF w
  <2>3. fetch' = [k \in Keys |-> fetch'[k]] /\ \A k \in Keys : fetch'[k] \in {None, [Ask EXCEPT !.as = w]}
    BY <2>1
  <2> QED
    BY <1>1, <1>2, <2>1, <2>2, <2>3, ClearedStep
<1>4. CASE ~(session # None /\ u # None /\ screen # "login")
  <2>1. /\ KeepsFor(w) /\ UNCHANGED <<cache, fetch>>
        /\ screen' = IF w = None THEN "login" ELSE screen
    BY <1>4 DEF SessionChange
  <2>2. screen' \in Screens
    BY <2>1, InstanceAssumption DEF IInv, TypeOK
  <2> HIDE DEF w
  <2> QED
    BY <1>1, <1>2, <2>1, <2>2, CredentialStep
<1> QED
  BY <1>3, <1>4

\* localStorage changes, in this tab or another one.
LEMMA TokenStep ==
    ASSUME IInv,
           \/ \E u \in Maybe(TokenUsers) : Elsewhere(u)
           \/ \E u \in TokenUsers : Paste(u)
           \/ LoginFail
    PROVE  IInv'
<1>1. session' \in Maybe(SessionUsers) /\ screen' \in Screens
  BY DEF IInv, TypeOK, Elsewhere, Paste, LoginFail
<1>2. UNCHANGED <<cache, fetch, writing, server, acked>>
  BY DEF Elsewhere, Paste, LoginFail
<1>3. ASSUME NEW u \in Maybe(TokenUsers), Elsewhere(u)
      PROVE  IInv'
  <2> DEFINE w == Bearer(u, session)
  <2>1. Who' = w /\ KeepsFor(w) /\ stored' \in Maybe(TokenUsers) /\ pasted' = pasted
    BY <1>3 DEF Elsewhere, Who, Bearer
  <2> HIDE DEF w
  <2> QED
    BY <1>1, <1>2, <2>1, CredentialStep
<1>4. ASSUME NEW u \in TokenUsers, Paste(u)
      PROVE  IInv'
  <2>1. u # None
    BY UserAssumption DEF Users
  <2>2. Who' = u /\ stored' \in Maybe(TokenUsers)
    BY <1>4, <2>1 DEF Paste, Who, Bearer, Maybe
  <2>3. KeepsFor(u) /\ pasted = None /\ pasted' = [as |-> u, step |-> "asked", ver |-> 0]
    BY <1>4 DEF Paste
  <2> QED
    BY <1>1, <1>2, <2>1, <2>2, <2>3, CredentialStep
<1>5. ASSUME LoginFail
      PROVE  IInv'
  <2>1. Who' = session /\ KeepsFor(session) /\ stored' \in Maybe(TokenUsers) /\ pasted' = None
    BY <1>5 DEF LoginFail, Who, Bearer, Maybe
  <2> QED
    BY <1>1, <1>2, <2>1, CredentialStep
<1> QED
  BY <1>3, <1>4, <1>5

\* A write starts, is made, or fails.
LEMMA WritesStep ==
    ASSUME IInv, \/ OthersWrite
                 \/ \E c \in Clicks : \/ \E kind \in Kinds : Click(c, kind)
                                      \/ Commit(c) \/ Failed(c)
    PROVE  IInv'
<1>1. TypeOK /\ server \in Nat /\ MaxWrites \in Nat
  BY BoundAssumption DEF IInv, TypeOK, Version
<1>2. \A c \in Clicks : writing[c] # None => writing[c] \in Order /\ writing[c].ver <= server
  BY DEF IInv, TypeOK, Known, Maybe
<1>3. ASSUME OthersWrite
      PROVE  IInv'
  <2>1. UNCHANGED <<stored, session, screen, cache, fetch, pasted, writing, acked, inherited>>
    BY <1>3 DEF OthersWrite
  <2>2. server' \in Version /\ server <= server'
    BY <1>1, <1>3 DEF OthersWrite, Version
  <2>3. writing' = [c \in Clicks |-> writing'[c]] /\ \A c \in Clicks : writing'[c] = writing[c]
    BY <1>1, <2>1 DEF TypeOK
  <2> QED
    BY <2>1, <2>2, <2>3, WriteStep
<1>4. ASSUME NEW d \in Clicks, NEW kind \in Kinds, Click(d, kind)
      PROVE  IInv'
  <2> DEFINE o == [kind |-> kind, as |-> Who, step |-> "sent", ver |-> 0]
  <2>1. o \in Order /\ o.ver = 0 /\ o.as = Who
    <3>1. Who \in Users
      BY <1>1, <1>4, Typed DEF Click, Maybe
    <3>2. 0 \in Version
      BY <1>1 DEF Version
    <3> QED
      BY <3>1, <3>2 DEF Order
  <2>2. /\ UNCHANGED <<stored, session, screen, cache, fetch, pasted, server, acked, inherited>>
        /\ writing' = [writing EXCEPT ![d] = o]
    BY <1>4 DEF Click
  <2> HIDE DEF o
  <2>3. server' \in Version /\ server <= server'
    BY <1>1, <2>2 DEF TypeOK
  <2>4. writing' = [c \in Clicks |-> writing'[c]] /\ \A c \in Clicks : writing'[c] \in {writing[c], o}
    BY <1>1, <2>2 DEF TypeOK
  <2>5. \A c \in Clicks :
           \/ writing'[c] \in {None, writing[c]}
           \/ writing'[c] \in Order /\ writing'[c].ver <= server' /\ writing'[c].as = Who
    BY <1>1, <2>1, <2>2, <2>4
  <2> QED
    BY <2>2, <2>3, <2>4, <2>5, WriteStep
<1>5. ASSUME NEW d \in Clicks, Commit(d)
      PROVE  IInv'
  <2>1. writing[d] \in Order
    BY <1>2, <1>5 DEF Commit
  <2>2. server + 1 \in Version
    BY <1>1, <1>5 DEF Commit, Version
  <2>3. /\ UNCHANGED <<stored, session, screen, cache, fetch, pasted, acked, inherited>>
        /\ server' = server + 1
    BY <1>5 DEF Commit
  <2>4. server' \in Version /\ server <= server'
    BY <1>1, <2>2, <2>3
  <2>5. writing' = [c \in Clicks |-> writing'[c]] /\ \A c \in Clicks \ {d} : writing'[c] = writing[c]
    BY <1>1, <1>5 DEF Commit, TypeOK
  <2>6. /\ writing'[d] \in Order /\ writing'[d].ver = server + 1
        /\ writing'[d].as = writing[d].as /\ writing'[d].kind = writing[d].kind
    BY <1>1, <1>5, <2>1, <2>2 DEF Commit, TypeOK, Order
  <2>7. \A c \in Clicks :
           \/ writing'[c] \in {None, writing[c]}
           \/ /\ writing'[c] \in Order /\ writing'[c].ver <= server'
              /\ writing[c] # None
              /\ writing'[c].as = writing[c].as /\ writing'[c].kind = writing[c].kind
    <3>1. server + 1 <= server' /\ writing[d] # None
      BY <1>1, <1>5 DEF Commit
    <3>2. writing'[d].ver <= server'
      BY <1>1, <2>3, <2>6
    <3> QED
      BY <2>5, <2>6, <3>1, <3>2
  <2> QED
    BY <2>3, <2>4, <2>5, <2>7, WriteStep
<1>6. ASSUME NEW d \in Clicks, Failed(d)
      PROVE  IInv'
  <2>1. UNCHANGED <<stored, session, screen, cache, fetch, pasted, server, acked, inherited>>
    BY <1>6 DEF Failed
  <2>2. server' \in Version /\ server <= server'
    BY <1>1, <2>1 DEF TypeOK
  <2>3. writing' = [c \in Clicks |-> writing'[c]] /\ \A c \in Clicks : writing'[c] \in {None, writing[c]}
    BY <1>1, <1>6 DEF Failed, TypeOK
  <2> QED
    BY <2>1, <2>2, <2>3, WriteStep
<1> QED
  BY <1>3, <1>4, <1>5, <1>6

\* A write is acknowledged; the tab may drop, or replace, what it changed.
LEMMA AcknowledgedStep ==
    ASSUME IInv, NEW d \in Clicks, Done(d) \/ Renamed(d)
    PROVE  IInv'
<1> DEFINE w == writing[d]
           drops == WriteOf[w.kind].drops
           ks == WriteOf[w.kind].refreshes \cap Keys
<1>1. w \in Order /\ w # None /\ w.ver <= server
  BY DEF IInv, TypeOK, Known, Maybe, Done, Renamed
<1>2. w.ver \in Version /\ w.as \in Users
  BY <1>1 DEF Order
<1>3. /\ UNCHANGED <<stored, session, screen, pasted, server, inherited>>
      /\ writing' = [writing EXCEPT ![d] = None]
      /\ Acks(ks, w.ver)
  BY DEF Done, Renamed
<1>4. cache' = [k \in Keys |-> cache'[k]] /\ fetch' = [k \in Keys |-> fetch'[k]]
  BY DEF Done, Renamed
<1>5. \A k \in Keys : \/ fetch'[k] \in {None, Ask}
                      \/ k \notin AskedAgain(ks) /\ fetch'[k] = fetch[k]
  BY DEF Done, Renamed
<1>6. \A k \in Keys : \/ cache'[k] \in {None, Flagged(ks)[k]}
                      \/ /\ k = "org" /\ cache'[k] \in Entry
                         /\ cache'[k].owner \in Held /\ cache'[k].ver = w.ver
  <2>1. CASE Done(d)
    BY <2>1 DEF Done
  <2>2. CASE Renamed(d)
    <3> DEFINE e == [owner |-> w.as, ver |-> w.ver, invalid |-> FALSE]
    <3>1. e \in Entry /\ e.owner = w.as /\ e.ver = w.ver
      BY <1>2 DEF Entry
    <3>2. w.as \in Held
      BY <1>1, <2>2, InHeld DEF IInv, Renamed
    <3>3. \A k \in Keys : IF k = "org" THEN cache'[k] = e ELSE cache'[k] = Flagged(ks)[k]
      BY <2>2 DEF Renamed
    <3> HIDE DEF e, w, ks
    <3> QED
      BY <3>1, <3>2, <3>3
  <2> QED
    BY <2>1, <2>2
<1> HIDE DEF w, ks
<1>7. \A k \in Keys : /\ \/ cache'[k] \in {None, Flagged(ks)[k]}
                         \/ /\ k = "org" /\ cache'[k] \in Entry
                            /\ cache'[k].owner \in Held /\ cache'[k].ver = w.ver
                      /\ \/ fetch'[k] \in {None, Ask}
                         \/ k \notin AskedAgain(ks) /\ fetch'[k] = fetch[k]
  BY <1>5, <1>6
<1> QED
  BY <1>1, <1>2, <1>3, <1>4, <1>7, AckStep

\* Every step of the tab, of the server and of another tab keeps the invariant.
LEMMA StepIInv == IInv /\ [Next]_vars => IInv'
<1> SUFFICES ASSUME IInv, [Next]_vars
             PROVE  IInv'
  OBVIOUS
<1>1. CASE SendToLogin \/ \E s \in Screens : Open(s)
  BY <1>1, ScreenStep
<1>2. ASSUME NEW k \in Keys,
             Refetch(k) \/ Serve(k) \/ Retry(k) \/ Deliver(k) \/ Fail(k) \/ LeftAlone(k) \/ Collect(k)
      PROVE  IInv'
  BY <1>2, QueriesStep
<1>3. ASSUME SignOut \/ \E k \in Keys : Refused(k)
      PROVE  IInv'
  <2>1. Logout
    BY <1>3 DEF SignOut, Refused
  <2> QED
    BY <2>1, LogoutStep
<1>4. ASSUME NEW u \in Maybe(SessionUsers), SessionChange(u)
      PROVE  IInv'
  BY <1>4, SessionStep
<1>5. CASE \/ \E u \in Maybe(TokenUsers) : Elsewhere(u)
           \/ \E u \in TokenUsers : Paste(u)
           \/ LoginFail
  BY <1>5, TokenStep
<1>6. CASE Validate \/ LoginOk \/ Reload
  BY <1>6, ValidateStep, LoginOkStep, ReloadStep
<1>7. CASE \/ OthersWrite
           \/ \E c \in Clicks : \/ \E kind \in Kinds : Click(c, kind)
                                \/ Commit(c) \/ Failed(c)
  BY <1>7, WritesStep
<1>8. ASSUME NEW c \in Clicks, Done(c) \/ Renamed(c)
      PROVE  IInv'
  BY <1>8, AcknowledgedStep
<1>9. CASE UNCHANGED vars
  <2>1. UNCHANGED <<stored, session, pasted, writing, server, acked, inherited, screen, cache, fetch>>
    BY <1>9 DEF vars
  <2>2. screen' \in Screens /\ cache' = [k \in Keys |-> cache'[k]] /\ fetch' = [k \in Keys |-> fetch'[k]]
    BY <2>1 DEF IInv, TypeOK
  <2>3. \A k \in Keys : FetchStep(k) /\ CacheStep(k)
    BY <2>1 DEF FetchStep, CacheStep
  <2> QED
    BY <2>1, <2>2, <2>3, QueryStep
<1> QED
  BY <1>1, <1>2, <1>3, <1>4, <1>5, <1>6, <1>7, <1>8, <1>9 DEF Next

-----------------------------------------------------------------------------

\* The inductive invariant holds throughout, whatever answers, refusals, other
\* tabs and the provider do.
THEOREM Invariance == Spec => []IInv
<1>1. Init => IInv
  BY InitIInv
<1>2. IInv /\ [Next]_vars => IInv'
  BY StepIInv
<1> QED
  BY <1>1, <1>2, PTL DEF Spec

\* The cache and the requests under way are of the one the tab speaks for.
THEOREM CacheAlwaysOwned == Spec => []CacheOwned
<1>1. IInv => CacheOwned
  <2> SUFFICES ASSUME IInv, ~inherited, Who # None, NEW k \in Keys
               PROVE  /\ cache[k] # None => cache[k].owner = Who
                      /\ fetch[k] # None => fetch[k].as \in {Who, None}
    BY DEF CacheOwned
  <2>1. Held \subseteq {Who}
    BY DEF IInv, OneSpeaks
  <2>2. /\ cache[k] # None => cache[k].owner \in Held
        /\ fetch[k] # None => fetch[k].as \in Held \cup {None}
    BY InHeld DEF IInv
  <2> QED
    BY <2>1, <2>2
<1> QED
  BY <1>1, Invariance, PTL

\* What is shown as current is as new as every write the tab made.
THEOREM OwnWritesAlwaysShown == Spec => []OwnWritesShown
<1>1. IInv => OwnWritesShown
  BY DEF IInv, Current, OwnWritesShown
<1> QED
  BY <1>1, Invariance, PTL
=============================================================================
