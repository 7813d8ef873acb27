---------------------------- MODULE SigningKeys ----------------------------
(* Login of administrators by tokens of an identity provider: the provider's *)
(* signing keys are fetched as one document by one login at a time, kept for *)
(* a while, and never used beyond that, and a key the document does not have  *)
(* is not looked for again at once.                                        *)
EXTENDS Integers, Sequences

CONSTANTS
  Login,          \* requests with a token
  Kid,            \* names of keys
  Algorithm,      \* algorithms the configuration allows
  NoKeyThere,     \* no algorithm
  KeysTtl,        \* how long a document is used
  UnknownWindow,  \* how long nothing is fetched for an unknown key
  MaxRotations,   \* bound of the provider's changes
  LastBeat        \* bound of the clock

ASSUME SigningAssumption ==
  /\ NoKeyThere \notin Algorithm /\ LastBeat \in Nat
  /\ {KeysTtl, UnknownWindow} \subseteq Nat \ {0}

VARIABLES
  provider,       \* the provider's keys, when each last changed, and how many changes
  keys,           \* the document in use: keys, when its fetch began and ended
  missing,        \* until when a key was found to be unknown
  blockedUntil,   \* until when unknown keys are not fetched
  login,          \* of each request: its token, where it is, what it was told
  lockQueue,      \* logins at the lock: the first holds it
  authOpen,
  beat

signingVars == <<provider, keys, missing, blockedUntil, login, lockQueue, authOpen, beat>>

LongAgo == -KeysTtl
NoKeys == [k \in Kid |-> NoKeyThere]

----------------------------------------------------------------------------
KeysAreFresh == beat - keys.ended < KeysTtl

Cached(token) == KeysAreFresh /\ keys.of[token.kid] = token.alg

\* While unknown keys are blocked, or this one is, a fresh document decides.
KnownMissing(token) ==
  KeysAreFresh /\ (beat < blockedUntil \/ beat < missing[token.kid])

\* What a login was told, by which document, and when.
TellLogin(l, told) ==
  login' = [login EXCEPT ![l].at = "ended", ![l].told = told, ![l].since = keys.began,
                         ![l].fetched = keys.ended, ![l].when = beat,
                         ![l].document = NoKeys]
GiveUp(l, told) ==
  login' = [login EXCEPT ![l].at = "ended", ![l].told = told, ![l].since = LongAgo,
                         ![l].document = NoKeys]
LeaveQueue(l) ==
  \E i \in DOMAIN lockQueue :
    /\ lockQueue[i] = l
    /\ lockQueue' = [j \in 1..(Len(lockQueue) - 1) |-> lockQueue[IF j < i THEN j ELSE j + 1]]

\* The token's algorithm and the cache decide without a wait, or the lock is
\* asked for.
Authenticate(l) ==
  LET token == login[l].token IN
  /\ login[l].at = "idle"
  /\ \/ ~authOpen /\ GiveUp(l, "unavailable") /\ UNCHANGED lockQueue
     \/ authOpen /\ token.alg \notin Algorithm /\ GiveUp(l, "invalid") /\ UNCHANGED lockQueue
     \/ /\ authOpen /\ token.alg \in Algorithm /\ Cached(token)
        /\ TellLogin(l, "accepted") /\ UNCHANGED lockQueue
     \/ /\ authOpen /\ token.alg \in Algorithm /\ ~Cached(token) /\ KnownMissing(token)
        /\ TellLogin(l, "unknown") /\ UNCHANGED lockQueue
     \/ /\ authOpen /\ token.alg \in Algorithm /\ ~Cached(token) /\ ~KnownMissing(token)
        /\ login' = [login EXCEPT ![l].at = "waiting"]
        /\ lockQueue' = Append(lockQueue, l)
  /\ UNCHANGED <<provider, keys, missing, blockedUntil, authOpen, beat>>

\* Under the lock everything is looked at again; then the document is fetched.
UnderLock(l) ==
  LET token == login[l].token IN
  /\ login[l].at = "waiting" /\ lockQueue[1] = l
  /\ \/ Cached(token) /\ TellLogin(l, "accepted") /\ LeaveQueue(l)
     \/ ~Cached(token) /\ KnownMissing(token) /\ TellLogin(l, "unknown") /\ LeaveQueue(l)
     \/ /\ ~Cached(token) /\ ~KnownMissing(token) /\ ~authOpen
        /\ GiveUp(l, "unavailable") /\ LeaveQueue(l)
     \/ /\ ~Cached(token) /\ ~KnownMissing(token) /\ authOpen
        /\ login' = [login EXCEPT ![l].at = "fetching", ![l].since = beat]
        /\ UNCHANGED lockQueue
  /\ UNCHANGED <<provider, keys, missing, blockedUntil, authOpen, beat>>

DocumentAnswers(l) ==
  /\ login[l].at = "fetching"
  /\ login' = [login EXCEPT ![l].at = "reading", ![l].document = provider.of]
  /\ UNCHANGED <<provider, keys, missing, blockedUntil, lockQueue, authOpen, beat>>

\* A document is taken as a whole: one key of an algorithm that is not allowed
\* spoils it, and one without keys is none.
Readable(document) ==
  /\ \A k \in Kid : document[k] \in Algorithm \cup {NoKeyThere}
  /\ document # NoKeys

Passed(until) == [k \in Kid |-> IF until[k] > beat THEN until[k] ELSE 0]

RefreshSucceeds(l) ==
  LET token == login[l].token
      found == login[l].document[token.kid] = token.alg IN
  /\ login[l].at = "reading" /\ Readable(login[l].document)
  /\ keys' = [of |-> login[l].document, began |-> login[l].since, ended |-> beat]
  /\ IF found
     THEN missing' = [Passed(missing) EXCEPT ![token.kid] = 0] /\ UNCHANGED blockedUntil
     ELSE /\ missing' = [Passed(missing) EXCEPT ![token.kid] = beat + UnknownWindow]
          /\ blockedUntil' = beat + UnknownWindow
  /\ login' = [login EXCEPT ![l].at = "ended", ![l].fetched = beat, ![l].when = beat,
                            ![l].document = NoKeys, ![l].told = IF found THEN "accepted" ELSE "unknown"]
  /\ LeaveQueue(l)
  /\ UNCHANGED <<provider, authOpen, beat>>

\* No connection, an error, too large or no document: nothing is remembered of
\* it, the next login at the lock fetches again.
RefreshFails(l) ==
  /\ login[l].at \in {"fetching", "reading"}
  /\ GiveUp(l, "unavailable")
  /\ LeaveQueue(l)
  /\ UNCHANGED <<provider, keys, missing, blockedUntil, authOpen, beat>>

LoginCancelled(l) ==
  /\ login[l].at \in {"waiting", "fetching", "reading"}
  /\ GiveUp(l, "cancelled")
  /\ LeaveQueue(l)
  /\ UNCHANGED <<provider, keys, missing, blockedUntil, authOpen, beat>>

----------------------------------------------------------------------------
\* The provider publishes, withdraws or changes a key; "weak" is an algorithm
\* the configuration does not allow.
Rotates ==
  /\ \E k \in Kid, a \in Algorithm \cup {NoKeyThere, "weak"} :
       /\ a # provider.of[k] /\ provider.rotations < MaxRotations
       /\ provider' = [of |-> [provider.of EXCEPT ![k] = a],
                       changed |-> [provider.changed EXCEPT ![k] = beat],
                       rotations |-> provider.rotations + 1]
  /\ UNCHANGED <<keys, missing, blockedUntil, login, lockQueue, authOpen, beat>>

AuthenticatorCloses ==
  /\ authOpen /\ authOpen' = FALSE
  /\ UNCHANGED <<provider, keys, missing, blockedUntil, login, lockQueue, beat>>

BeatPasses ==
  /\ beat < LastBeat /\ beat' = beat + 1
  /\ UNCHANGED <<provider, keys, missing, blockedUntil, login, lockQueue, authOpen>>

----------------------------------------------------------------------------
\* The tokens of a behaviour are chosen with the initial state; whichever key a
\* token names, it is one of the names.
BearerAsks(T) == \A token \in T : token.kid \in Kid
Bearing(tokens) ==
  login = [l \in Login |-> [token |-> tokens[l], at |-> "idle", told |-> "nothing",
                            document |-> NoKeys, since |-> LongAgo, fetched |-> LongAgo,
                            when |-> LongAgo]]

SigningInit ==
  /\ \E k \in Kid, a \in Algorithm :
       provider = [of |-> [NoKeys EXCEPT ![k] = a], changed |-> [j \in Kid |-> LongAgo],
                   rotations |-> 0]
  /\ keys = [of |-> NoKeys, began |-> LongAgo, ended |-> LongAgo]
  /\ missing = [k \in Kid |-> 0] /\ blockedUntil = LongAgo
  /\ lockQueue = <<>> /\ authOpen = TRUE /\ beat = 0

SigningNext ==
  \/ \E l \in Login :
       \/ Authenticate(l) \/ UnderLock(l) \/ DocumentAnswers(l) \/ RefreshSucceeds(l)
       \/ RefreshFails(l) \/ LoginCancelled(l)
  \/ Rotates \/ AuthenticatorCloses \/ BeatPasses

\* Steps without a wait are taken, and a fetch ends: its reads have a timeout.
SigningFairness ==
  \A l \in Login :
    WF_signingVars(Authenticate(l)) /\ WF_signingVars(UnderLock(l))
      /\ WF_signingVars(RefreshFails(l) \/ RefreshSucceeds(l))

----------------------------------------------------------------------------
SigningTypeOK ==
  /\ provider.of \in [Kid -> Algorithm \cup {NoKeyThere, "weak"}]
  /\ keys.of \in [Kid -> Algorithm \cup {NoKeyThere}]
  /\ keys.began <= keys.ended /\ keys.ended <= beat
  /\ \A l \in Login :
       /\ login[l].at \in {"idle", "waiting", "fetching", "reading", "ended"}
       /\ login[l].told \in {"nothing", "accepted", "unknown", "unavailable", "invalid",
                             "cancelled"}
  /\ authOpen \in BOOLEAN /\ beat \in 0..LastBeat

Told(l, what) == login[l].told = what
At0(k, alg) == provider.of[k] = alg

\* Who is accepted has a key that is the provider's, or was when the fetch of
\* the document began; and a document is used for its time only, whatever
\* became of the fetches since.  oidc.py:262-330, :355-405.
AcceptedByRecentKeys ==
  \A l \in Login : Told(l, "accepted") =>
    LET token == login[l].token IN
    /\ At0(token.kid, token.alg) \/ provider.changed[token.kid] >= login[l].since
    /\ login[l].when - login[l].fetched < KeysTtl

\* Who is refused for an unknown key was looked for in a document fetched less
\* than the window ago: a new key waits no longer.  oidc.py:271-300, :331-353.
NewKeysAreFound ==
  \A l \in Login : Told(l, "unknown") =>
    LET token == login[l].token IN
    /\ ~At0(token.kid, token.alg) \/ provider.changed[token.kid] >= login[l].since
    /\ login[l].when - login[l].fetched < UnknownWindow

\* One login fetches, and holds the lock; the others wait behind it.
\* oidc.py:280-286.
OneLoginFetches ==
  \A l \in Login : login[l].at \in {"fetching", "reading"} => lockQueue[1] = l

\* What is remembered of single keys ends with the block of all.
\* oidc.py:289-295, :336-345.
BlockCoversMissing == \A k \in Kid : missing[k] > beat => missing[k] <= blockedUntil

LoginsAreSound ==
  AcceptedByRecentKeys /\ NewKeysAreFound /\ OneLoginFetches /\ BlockCoversMissing

\* Whoever waits at the lock gets an answer.  oidc.py:280-300.
LoginsEnd == \A l \in Login : login[l].at = "waiting" ~> login[l].at = "ended"
=============================================================================
