------------------------------- MODULE WebApp -------------------------------
(***************************************************************************)
(* One browser tab of the web app (src/apps/web): the credential it sends, *)
(* the screen it shows, the cache its queries fill, and the writes its     *)
(* buttons start.  What the server answers is a version number, one higher *)
(* for every write anybody makes; whose answer it is goes with it.         *)
(*                                                                         *)
(* A query runs in steps, with anything in between: the bearer is read and *)
(* the request sent, the server answers or refuses, the tab takes the      *)
(* answer up.  So does a write.                                            *)
(***************************************************************************)
EXTENDS Integers, FiniteSets

CONSTANTS
    TokenUsers,     \* whom tokens speak for: a user and the org
    SessionUsers,   \* whom the identity provider's sessions speak for
    None,           \* no credential, no answer, nothing under way
    Keys,           \* the query keys of the instance
    Screens,        \* the screens of the instance
    Clicks,         \* writes that may be under way at once
    MaxWrites       \* bound: writes, the tab's and others'

\* The query keys; "session", "bundle" and "history" are those of one session
\* or unit, "blobs" the text of one file.
AllKeys == {"whoami", "sessions", "session", "bundles", "bundle", "history", "blobs",
            "org", "published", "installs", "members", "tokens", "billing"}

Users == TokenUsers \cup SessionUsers

ASSUME UserAssumption == None \notin Users

ASSUME BoundAssumption == MaxWrites \in Nat

-----------------------------------------------------------------------------
(***************************************************************************)
(* What a screen's queries are and which writes it offers.                 *)
(***************************************************************************)
Page(shows, offers) == [shows |-> shows, offers |-> offers]

Beside(p, q) == Page(p.shows \cup q.shows, p.offers \cup q.offers)

\* The frame every screen but the login one is in.
Shell == Page({"whoami"}, {})

InShell(p) == Beside(p, Shell)

OrgEdit == Page({}, {"updateOrg"})

OrgCard == Beside(Page({"org"}, {}), OrgEdit)

Sessions == Page({"sessions"}, {})

SessionDetail == Page({"session"}, {"deleteSession"})

Skills == Page({"bundles"}, {})

NewSkill == Page({}, {"save"})

\* The plate or the diff of a unit's page.
UnitFiles == Page({"blobs"}, {})

SkillEditor == Page({"blobs"}, {"save"})

\* Its versions, and the buttons beside them.
SkillQueries == Page({"bundle", "history"}, {})

SkillButtons == Page({}, {"save", "deleteUnit"})

SkillDetail == Beside(Beside(SkillQueries, SkillButtons), UnitFiles)

Pulls == Page({"installs", "members"}, {})

PublishForm == Page({}, {"share"})

PublishedCard == Beside(Page({"published", "org"}, {"share"}), PublishForm)

TokenRows == Page({}, {"token"})

Tokens == Beside(Page({"tokens"}, {}), TokenRows)

\* The form, which an admin's list of members is for.
NewToken == Page({"members"}, {"token"})

NewMember == Page({}, {"member"})

MemberRows == Page({}, {"member"})

Members == Beside(Beside(Page({"members"}, {}), OrgCard), Beside(NewMember, MemberRows))

Billing == Beside(Page({"billing"}, {}), OrgCard)

GettingStarted == OrgCard

\* The routes.  "pickOrg" is the Shell's own screen for a provider session
\* the server refuses.
PageOf ==
    [login |-> Page({}, {}), pickOrg |-> Shell, sessions |-> InShell(Sessions),
     session |-> InShell(SessionDetail), skills |-> InShell(Skills), newSkill |-> InShell(NewSkill),
     unit |-> InShell(SkillDetail), orgUnit |-> InShell(Beside(SkillDetail, Beside(PublishedCard, Pulls))),
     editor |-> InShell(Beside(SkillDetail, SkillEditor)),
     tokens |-> InShell(Tokens), newToken |-> InShell(Beside(Tokens, NewToken)),
     members |-> InShell(Members), billing |-> InShell(Billing), start |-> InShell(GettingStarted)]

ASSUME InstanceAssumption ==
    /\ "whoami" \in Keys /\ Keys \subseteq AllKeys
    /\ {"login", "pickOrg"} \subseteq Screens /\ Screens \subseteq DOMAIN PageOf

-----------------------------------------------------------------------------
(***************************************************************************)
(* What a write needs on the screen, drops from the cache and invalidates. *)
(***************************************************************************)
Write(needs, drops, refreshes) == [needs |-> needs, drops |-> drops, refreshes |-> refreshes]

TokenWrite == Write({}, {}, {"tokens"})

MemberWrite == Write({"whoami"}, {}, {"members", "tokens", "org"})

OrgWrite == Write({"whoami", "org"}, {}, {"whoami"})

Share == Write({"whoami", "org", "published", "bundle"}, {}, {"published", "org"})

Save == Write({}, {}, {"bundles", "bundle", "history", "org"})

DeleteUnit == Write({"bundle"}, {"bundle", "history"}, {"bundles", "org"})

DeleteSession == Write({"session"}, {"session"}, {"sessions"})

WriteOf ==
    [token |-> TokenWrite, member |-> MemberWrite, updateOrg |-> OrgWrite, share |-> Share,
     save |-> Save, deleteUnit |-> DeleteUnit, deleteSession |-> DeleteSession]

Kinds == DOMAIN WriteOf

\* Queries that do not age, and those that are not tried again.
Forever == {"whoami", "blobs"}
NoRetry == {"whoami", "session", "bundle", "history"}

\* Asked of the billing service, whose refusal is never taken for a 401.
OtherService == {"billing"}

-----------------------------------------------------------------------------
VARIABLES
    stored,         \* whose token localStorage holds; every tab has the same
    session,        \* whose session the identity provider has
    screen,
    cache,          \* the answer under each key: whose, of which version, and
                    \* whether it was invalidated since
    fetch,          \* the request under way for each key
    pasted,         \* the login form's own request
    writing,        \* the writes under way
    server,         \* version of what the server holds
    acked,          \* history: for each key, the last write that was
                    \* acknowledged to the tab and made it ask again
    inherited       \* history: the tab has gone over to another's credential
                    \* and kept something of the last one's

vars == <<stored, session, screen, cache, fetch, pasted, writing, server, acked, inherited>>

Version == 0..MaxWrites
Maybe(S) == S \cup {None}

Entry == [owner : Users, ver : Version, invalid : BOOLEAN]
Request == [as : Maybe(Users), step : {"asked", "answered"}, ver : Version]
Order == [kind : Kinds, as : Users, step : {"sent", "made"}, ver : Version]

ASSUME NoneAssumption == None \notin Entry /\ None \notin Request /\ None \notin Order

\* bearer: a pasted token wins over a provider session.
Bearer(token, current) == IF token # None THEN token ELSE current

Who == Bearer(stored, session)

Observed == PageOf[screen].shows \cap Keys

Ask == [as |-> Who, step |-> "asked", ver |-> 0]

\* An answer a screen that opens does not ask for again.
Fresh(k) == k \in Forever /\ cache[k] # None /\ ~cache[k].invalid

Flagged(ks) ==
    [k \in Keys |-> IF k \in ks /\ cache[k] # None THEN [cache[k] EXCEPT !.invalid = TRUE] ELSE cache[k]]

Nothing == [k \in Keys |-> None]

\* Whose answers outlive a cleared cache, and whose the tab has at all.
Loose ==
    {u \in Users : \/ pasted # None /\ pasted.as = u
                   \/ \E c \in Clicks : /\ writing[c] # None
                                        /\ writing[c].kind = "updateOrg" /\ writing[c].as = u}

Held ==
    Loose \cup {u \in Users : \E k \in Keys : \/ cache[k] # None /\ cache[k].owner = u
                                              \/ fetch[k] # None /\ fetch[k].as = u}

\* u comes to speak with owners' answers in the tab.
Mixes(owners, u) == u # None /\ ~(owners \subseteq {u})

KeepsFor(u) == inherited' = (inherited \/ Mixes(Held, u))

-----------------------------------------------------------------------------
Init ==
    /\ stored \in Maybe(TokenUsers) /\ session \in Maybe(SessionUsers)
    /\ screen = "login"
    /\ cache = Nothing /\ fetch = Nothing
    /\ pasted = None /\ writing = [c \in Clicks |-> None]
    /\ server = 0 /\ acked = [k \in Keys |-> 0] /\ inherited = FALSE

(***************************************************************************)
(* Screens and queries.                                                    *)
(***************************************************************************)
\* The refusal the Shell shows instead of a screen is still there.
NoOrg ==
    /\ screen = "pickOrg" /\ stored = None
    /\ IF cache["whoami"] = None THEN fetch["whoami"] = None ELSE cache["whoami"].invalid

\* A screen opens: a link, an address, the end of a login or of a write.  Its
\* queries run unless they are running already.
Open(s) ==
    /\ s \notin {"login", "pickOrg", screen} /\ Who # None /\ ~NoOrg
    /\ screen' = s
    /\ fetch' = [k \in Keys |->
                    IF k \in PageOf[s].shows /\ fetch[k] = None /\ ~Fresh(k) THEN Ask ELSE fetch[k]]
    /\ UNCHANGED <<stored, session, cache, pasted, writing, server, acked, inherited>>

\* RequireAuth renders with no credential left.
SendToLogin ==
    /\ screen # "login" /\ Who = None
    /\ screen' = "login"
    /\ UNCHANGED <<stored, session, cache, fetch, pasted, writing, server, acked, inherited>>

\* A retry button, a reconnect, another filter: what has an answer already is
\* asked for again and the request under way forgotten.
Refetch(k) ==
    /\ k \in Observed /\ ~Fresh(k)
    /\ fetch[k] # None => cache[k] # None
    /\ fetch' = [fetch EXCEPT ![k] = Ask]
    /\ UNCHANGED <<stored, session, screen, cache, pasted, writing, server, acked, inherited>>

\* The server's side: what it holds now.  A refusal says nothing of what it
\* holds, and can be taken up whenever no answer has come.
Answer(r) == [r EXCEPT !.step = "answered", !.ver = server]

Serve(k) ==
    /\ fetch[k] # None /\ fetch[k].step = "asked" /\ fetch[k].as # None
    /\ fetch' = [fetch EXCEPT ![k] = Answer(fetch[k])]
    /\ UNCHANGED <<stored, session, screen, cache, pasted, writing, server, acked, inherited>>

\* retry: 1, for a lost answer or a refusal, with the bearer of the moment.
Retry(k) ==
    /\ k \in Observed \ NoRetry
    /\ fetch[k] # None /\ fetch[k].step = "asked"
    /\ fetch' = [fetch EXCEPT ![k] = Ask]
    /\ UNCHANGED <<stored, session, screen, cache, pasted, writing, server, acked, inherited>>

Deliver(k) ==
    /\ fetch[k] # None /\ fetch[k].step = "answered"
    /\ cache' = [cache EXCEPT ![k] = [owner |-> fetch[k].as, ver |-> fetch[k].ver, invalid |-> FALSE]]
    /\ fetch' = [fetch EXCEPT ![k] = None]
    /\ UNCHANGED <<stored, session, screen, pasted, writing, server, acked, inherited>>

\* The query is in error; an answer it had stays, marked.
Errs(k) ==
    /\ cache' = Flagged({k})
    /\ fetch' = [fetch EXCEPT ![k] = None]

\* The server could not be reached.
Fail(k) ==
    /\ fetch[k] # None /\ fetch[k].step = "asked"
    /\ Errs(k)
    /\ UNCHANGED <<stored, session, screen, pasted, writing, server, acked, inherited>>

\* Variant, for comparison: requests under way are not cancelled.
LogoutKeepsRequests ==
    /\ stored' = None
    /\ cache' = Nothing
    /\ screen' = "login"
    /\ inherited' = Mixes(Loose, session)
    /\ UNCHANGED <<session, fetch, pasted, writing, server, acked>>

\* logout(): the token, and everything cached or asked for.
Logout ==
    /\ stored' = None
    /\ cache' = Nothing /\ fetch' = Nothing
    /\ screen' = "login"
    /\ inherited' = Mixes(Loose, session)
    /\ UNCHANGED <<session, pasted, writing, server, acked>>

\* A 401 drops a stored token, whichever token it was the answer to.
Refused(k) ==
    /\ fetch[k] # None /\ fetch[k].step = "asked"
    /\ stored # None /\ k \notin OtherService
    /\ Logout

\* A provider session is left alone; if it is the identity that was refused,
\* the Shell asks for an org.
LeftAlone(k) ==
    /\ fetch[k] # None /\ fetch[k].step = "asked"
    /\ stored # None => k \in OtherService
    /\ Errs(k)
    /\ screen' = IF k = "whoami" /\ session # None /\ screen # "login" THEN "pickOrg" ELSE screen
    /\ UNCHANGED <<stored, session, pasted, writing, server, acked, inherited>>

\* gcTime: an answer nothing shows is forgotten some time.
Collect(k) ==
    /\ k \notin Observed /\ cache[k] # None /\ fetch[k] = None
    /\ cache' = [cache EXCEPT ![k] = None]
    /\ UNCHANGED <<stored, session, screen, fetch, pasted, writing, server, acked, inherited>>

(***************************************************************************)
(* Credentials.                                                            *)
(***************************************************************************)
SignOut ==
    /\ screen # "login"
    /\ Logout

\* Variant, for comparison: the queries are not reset.
SessionChangeKeeps(u) ==
    /\ u # session
    /\ session' = u
    /\ screen' = IF Bearer(stored, u) = None THEN "login" ELSE screen
    /\ UNCHANGED <<stored, cache, fetch, pasted, writing, server, acked, inherited>>

\* The provider's session begins, ends, or becomes another user's or org's.
\* Only the last is what useAuth resets the queries for; on the login screen
\* it has no session to compare with.
SessionChange(u) ==
    /\ u # session
    /\ session' = u
    /\ \/ /\ session # None /\ u # None /\ screen # "login"
          /\ cache' = Nothing
          /\ fetch' = [k \in Keys |-> IF k \in Observed THEN [Ask EXCEPT !.as = Bearer(stored, u)] ELSE None]
          /\ inherited' = Mixes(Loose, Bearer(stored, u))
          /\ UNCHANGED screen
       \/ /\ ~(session # None /\ u # None /\ screen # "login")
          /\ screen' = IF Bearer(stored, u) = None THEN "login" ELSE screen
          /\ KeepsFor(Bearer(stored, u))
          /\ UNCHANGED <<cache, fetch>>
    /\ UNCHANGED <<stored, pasted, writing, server, acked>>

\* The login form stores the token and only then tries it.
Paste(u) ==
    /\ screen = "login" /\ Who = None /\ pasted = None
    /\ stored' = u
    /\ pasted' = [as |-> u, step |-> "asked", ver |-> 0]
    /\ KeepsFor(u)
    /\ UNCHANGED <<session, screen, cache, fetch, writing, server, acked>>

Validate ==
    /\ pasted # None /\ pasted.step = "asked" /\ pasted' = Answer(pasted)
    /\ UNCHANGED <<stored, session, screen, cache, fetch, writing, server, acked, inherited>>

LoginOk ==
    /\ pasted # None /\ pasted.step = "answered"
    /\ cache' = [cache EXCEPT !["whoami"] = [owner |-> pasted.as, ver |-> pasted.ver, invalid |-> FALSE]]
    /\ pasted' = None
    /\ UNCHANGED <<stored, session, screen, fetch, writing, server, acked, inherited>>

\* Whatever token is stored by now.
LoginFail ==
    /\ pasted # None /\ pasted.step = "asked"
    /\ stored' = None /\ pasted' = None
    /\ KeepsFor(session)
    /\ UNCHANGED <<session, screen, cache, fetch, writing, server, acked>>

\* Another tab logs in or out: nothing tells this one.
Elsewhere(u) ==
    /\ u # stored
    /\ stored' = u
    /\ KeepsFor(Bearer(u, session))
    /\ UNCHANGED <<session, screen, cache, fetch, pasted, writing, server, acked>>

\* The page is loaded anew: localStorage and the provider's session are kept.
Reload ==
    /\ screen' = "login"
    /\ cache' = Nothing /\ fetch' = Nothing
    /\ pasted' = None /\ writing' = [c \in Clicks |-> None]
    /\ inherited' = FALSE
    /\ UNCHANGED <<stored, session, server, acked>>

(***************************************************************************)
(* Writes.                                                                 *)
(***************************************************************************)
\* A write with no bearer could only fail.
Click(c, kind) ==
    /\ writing[c] = None /\ Who # None
    /\ kind \in PageOf[screen].offers
    /\ \A k \in WriteOf[kind].needs \cap Keys : cache[k] # None
    /\ writing' = [writing EXCEPT ![c] = [kind |-> kind, as |-> Who, step |-> "sent", ver |-> 0]]
    /\ UNCHANGED <<stored, session, screen, cache, fetch, pasted, server, acked, inherited>>

Commit(c) ==
    /\ writing[c] # None /\ writing[c].step = "sent"
    /\ server < MaxWrites
    /\ server' = server + 1
    /\ writing' = [writing EXCEPT ![c].step = "made", ![c].ver = server + 1]
    /\ UNCHANGED <<stored, session, screen, cache, fetch, pasted, acked, inherited>>

\* Variant, for comparison: a request under way is left to answer.
AskedIfIdle(ks) == {k \in ks \cap Observed : fetch[k] = None}

\* The keys an invalidation asks for again at once, cancelling what is under
\* way; a first answer still to come is not cancelled.
AskedAgain(ks) == {k \in ks \cap Observed : cache[k] # None \/ fetch[k] = None}

\* The keys that cannot be given an older answer any more.
Settled(ks) ==
    {k \in ks : /\ fetch[k] # None => k \in Observed /\ cache[k] # None
                /\ k = "whoami" => pasted = None}

Acks(ks, n) ==
    acked' = [k \in Keys |-> IF k \in Settled(ks) /\ acked[k] < n THEN n ELSE acked[k]]

\* A write is acknowledged.
Done(c) ==
    LET w == writing[c]
        drops == WriteOf[w.kind].drops
        refreshes == WriteOf[w.kind].refreshes \cap Keys IN
    /\ w # None /\ w.step = "made" /\ w.kind # "updateOrg"
    /\ cache' = [k \in Keys |-> IF k \in drops THEN None ELSE Flagged(refreshes)[k]]
    /\ fetch' = [k \in Keys |->
                    IF k \in drops THEN None ELSE IF k \in AskedAgain(refreshes) THEN Ask ELSE fetch[k]]
    /\ Acks(refreshes, w.ver)
    /\ writing' = [writing EXCEPT ![c] = None]
    /\ UNCHANGED <<stored, session, screen, pasted, server, inherited>>

\* A change of the org is: its answer is the org from now on.
Renamed(c) ==
    LET w == writing[c]
        refreshes == WriteOf[w.kind].refreshes \cap Keys IN
    /\ w # None /\ w.step = "made" /\ w.kind = "updateOrg"
    /\ cache' = [k \in Keys |-> IF k = "org" THEN [owner |-> w.as, ver |-> w.ver, invalid |-> FALSE]
                                ELSE Flagged(refreshes)[k]]
    /\ fetch' = [k \in Keys |-> IF k \in AskedAgain(refreshes) THEN Ask ELSE fetch[k]]
    /\ Acks(refreshes, w.ver)
    /\ writing' = [writing EXCEPT ![c] = None]
    /\ UNCHANGED <<stored, session, screen, pasted, server, inherited>>

\* Refused, or the answer lost, the write made or not: the form says so and
\* no query is asked again.
Failed(c) ==
    /\ writing[c] # None
    /\ writing' = [writing EXCEPT ![c] = None]
    /\ UNCHANGED <<stored, session, screen, cache, fetch, pasted, server, acked, inherited>>

\* Somebody else's write.
OthersWrite ==
    /\ server < MaxWrites
    /\ server' = server + 1
    /\ UNCHANGED <<stored, session, screen, cache, fetch, pasted, writing, acked, inherited>>

-----------------------------------------------------------------------------
Next ==
    \/ \E s \in Screens : Open(s)
    \/ SendToLogin
    \/ \E k \in Keys : \/ Refetch(k) \/ Serve(k) \/ Retry(k) \/ Deliver(k) \/ Fail(k)
                       \/ Refused(k) \/ LeftAlone(k) \/ Collect(k)
    \/ SignOut
    \/ \E u \in Maybe(SessionUsers) : SessionChange(u)
    \/ \E u \in Maybe(TokenUsers) : Elsewhere(u)
    \/ \E u \in TokenUsers : Paste(u)
    \/ Validate \/ LoginOk \/ LoginFail
    \/ Reload
    \/ \E c \in Clicks : \/ \E kind \in Kinds : Click(c, kind)
                         \/ Commit(c) \/ Done(c) \/ Renamed(c) \/ Failed(c)
    \/ OthersWrite

Spec == Init /\ [][Next]_vars

-----------------------------------------------------------------------------
TypeOK ==
    /\ stored \in Maybe(TokenUsers) /\ session \in Maybe(SessionUsers)
    /\ screen \in Screens
    /\ cache \in [Keys -> Maybe(Entry)]
    /\ fetch \in [Keys -> Maybe(Request)]
    /\ pasted \in Maybe(Request)
    /\ writing \in [Clicks -> Maybe(Order)]
    /\ server \in Version
    /\ acked \in [Keys -> Version]
    /\ inherited \in BOOLEAN

\* Nothing is newer than the server.
Known ==
    /\ \A k \in Keys : /\ cache[k] # None => cache[k].ver <= server
                       /\ fetch[k] # None => fetch[k].ver <= server
                       /\ acked[k] <= server
    /\ pasted # None => pasted.ver <= server
    /\ \A c \in Clicks : writing[c] # None => writing[c].ver <= server

\* An answer is somebody's.
AnswersOwned ==
    /\ \A k \in Keys : fetch[k] # None /\ fetch[k].step = "answered" => fetch[k].as \in Users
    /\ pasted # None => pasted.as \in Users

\* All there is speaks for one, unless something was kept.
OneSpeaks == ~inherited /\ Who # None => Held \subseteq {Who}

\* What is shown as current, and what is about to be.
Current ==
    /\ \A k \in Keys \ {"org"} :
        /\ cache[k] # None /\ ~cache[k].invalid => cache[k].ver >= acked[k]
        /\ fetch[k] # None /\ fetch[k].step = "answered" => fetch[k].ver >= acked[k]
    /\ pasted # None /\ pasted.step = "answered" => pasted.ver >= acked["whoami"]

IInv == TypeOK /\ Known /\ AnswersOwned /\ OneSpeaks /\ Current

\* What the tab shows, or is about to, is of the one its requests speak for,
\* unless it has gone over from one to the other and kept something: logout
\* (src/apps/web/src/api/auth.ts) drops everything, and useAuth resets the
\* queries when the provider's session becomes another's.
CacheOwned ==
    ~inherited /\ Who # None =>
        \A k \in Keys : /\ cache[k] # None => cache[k].owner = Who
                        /\ fetch[k] # None => fetch[k].as \in {Who, None}

\* A screen never shows, as current, what was there before a write the tab
\* has been acknowledged: the onSuccess handlers of src/apps/web/src/api
\* invalidate what they change, and ask again for what is shown and had an
\* answer, whatever request for it was under way.  A first answer still to come,
\* and a request for what is not shown, are not covered (`acked` is not raised
\* for them), nor is the org's own entry.
OwnWritesShown ==
    \A k \in Keys \ {"org"} :
        cache[k] # None /\ ~cache[k].invalid => cache[k].ver >= acked[k]
=============================================================================
