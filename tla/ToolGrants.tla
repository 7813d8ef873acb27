----------------------------- MODULE ToolGrants -----------------------------
(* The permissions of one operator: SET replaces the active grant by a new  *)
(* one, REVOKE ends it, both as the next version.  There is no head row: a   *)
(* change locks the active grant, if there is one, and reads the highest     *)
(* version in a statement of its own.  At read committed a request that      *)
(* waited for a grant which was revoked meanwhile goes on without a lock.    *)
EXTENDS Naturals, Sequences, FiniteSets

CONSTANTS
  Admin,       \* requests of administrators, repeats included
  NoAdmin,
  Viewer,      \* requests that read the current grant
  Permission   \* sets of permission tags

ASSUME GrantAssumption == NoAdmin \notin Admin

\* What administrators can ask for: A is a set of requests.
GrantAsks(A) ==
  \A a \in A : /\ a.kind \in {"set", "revoke"} /\ a.expected \in Nat
               /\ a.kind = "set" => a.tags \in Permission

VARIABLES
  grants,      \* all grants, in the order they were made
  grantLock,   \* of each of them: the request that holds its row
  changes,     \* operations: request, version, grant
  granting,    \* of each request: what it asks for, and where it is
  verdict,     \* of each request: its answer
  viewing      \* of each viewer: where it is, and what it has read

grantVars == <<grants, grantLock, changes, granting, verdict, viewing>>

ActiveGrants == {g \in DOMAIN grants : ~grants[g].revoked}
HighestVersion ==
  IF grants = <<>> THEN 0
  ELSE CHOOSE n \in {grants[g].version : g \in DOMAIN grants} :
         \A g \in DOMAIN grants : grants[g].version <= n

ChangeUnder(key) == {c \in changes : c.ask.key = key}

NoGrant == 0

\* The request ends with its transaction.
AnswerAdmin(m, answer) ==
  /\ verdict' = [verdict EXCEPT ![m] = answer]
  /\ granting' = [granting EXCEPT ![m].at = "ended"]
  /\ grantLock' = [g \in DOMAIN grantLock |-> IF grantLock[g] = m THEN NoAdmin ELSE grantLock[g]]

AnswerAgain(m) ==
  \E c \in ChangeUnder(granting[m].ask.key) :
    AnswerAdmin(m, IF c.ask = granting[m].ask
              THEN [how |-> "repeated", version |-> c.version]
              ELSE [how |-> "refused", version |-> 0])

RefuseChange(m) == AnswerAdmin(m, [how |-> "refused", version |-> 0])

----------------------------------------------------------------------------
(* Changes.                                                                *)

LookUpChange(m) ==
  /\ granting[m].at = "idle"
  /\ IF ChangeUnder(granting[m].ask.key) # {} THEN AnswerAgain(m)
     ELSE /\ granting' = [granting EXCEPT ![m].at = "selecting"]
          /\ UNCHANGED <<verdict, grantLock>>
  /\ UNCHANGED <<grants, changes, viewing>>

HoldsGrant(m, g) ==
  /\ granting' = [granting EXCEPT ![m].at = "counting", ![m].held = g]
  /\ grantLock' = IF g = NoGrant THEN grantLock ELSE [grantLock EXCEPT ![g] = m]

\* The statement finds the active grant and waits for its row, if another
\* request has it.
SelectActive(m) ==
  /\ granting[m].at = "selecting"
  /\ IF ActiveGrants = {} THEN HoldsGrant(m, NoGrant)
     ELSE \E g \in ActiveGrants :
            IF grantLock[g] = NoAdmin THEN HoldsGrant(m, g)
            ELSE /\ granting' = [granting EXCEPT ![m].at = "waiting", ![m].held = g]
                 /\ UNCHANGED grantLock
  /\ UNCHANGED <<grants, changes, verdict, viewing>>

\* The row is free: if it is no longer active, the statement returns nothing.
GetsRow(m) ==
  /\ granting[m].at = "waiting"
  /\ grantLock[granting[m].held] = NoAdmin
  /\ IF granting[m].held \in ActiveGrants THEN HoldsGrant(m, granting[m].held) ELSE HoldsGrant(m, NoGrant)
  /\ UNCHANGED <<grants, changes, verdict, viewing>>


\* The highest version is the one the administrator saw.
CountIsExpected(m) == HighestVersion = granting[m].ask.expected

\* The highest version is read, the key looked for again, and both checked.
CountVersions(m) ==
  /\ granting[m].at = "counting"
  /\ LET held == granting[m].held
     IN IF ChangeUnder(granting[m].ask.key) # {} THEN AnswerAgain(m)
        ELSE IF /\ held # NoGrant => grants[held].version = HighestVersion
                /\ CountIsExpected(m)
                /\ granting[m].ask.kind = "revoke" => held # NoGrant
        THEN /\ granting' = [granting EXCEPT ![m].at = "writing",
                                             ![m].version = HighestVersion + 1]
             /\ UNCHANGED <<verdict, grantLock>>
        ELSE RefuseChange(m)
  /\ UNCHANGED <<grants, changes, viewing>>

RevokedGrants(m) ==
  [g \in DOMAIN grants |->
     IF g = granting[m].held THEN [grants[g] EXCEPT !.revoked = TRUE] ELSE grants[g]]

NewGrant(m) ==
  [version |-> granting[m].version, tags |-> granting[m].ask.tags, revoked |-> FALSE]

ChangeMade(m, g) ==
  /\ changes' = changes \cup {[ask |-> granting[m].ask, version |-> granting[m].version,
                               grant |-> g]}
  /\ \E how \in {"done", "refused"} :
       /\ verdict' = [verdict EXCEPT ![m] =
            [how |-> how, version |-> IF how = "done" THEN granting[m].version ELSE 0]]
       /\ granting' = [granting EXCEPT ![m].at = "ended"]

Unlocked(m) ==
  [g \in DOMAIN grantLock |-> IF grantLock[g] = m THEN NoAdmin ELSE grantLock[g]]

\* The old grant is revoked, the new one inserted.  The unique indexes on the
\* active grant and on the key refuse a second one; then the request looks for
\* its own operation once more.
CommitSet(m) ==
  /\ granting[m].at = "writing"
  /\ granting[m].ask.kind = "set"
  /\ IF ActiveGrants \ {granting[m].held} # {} \/ ChangeUnder(granting[m].ask.key) # {}
     THEN /\ IF ChangeUnder(granting[m].ask.key) # {} THEN AnswerAgain(m) ELSE RefuseChange(m)
          /\ UNCHANGED <<grants, changes>>
     ELSE /\ grants' = Append(RevokedGrants(m), NewGrant(m))
          /\ grantLock' = Append(Unlocked(m), NoAdmin)
          /\ ChangeMade(m, Len(grants) + 1)
  /\ UNCHANGED viewing

\* The grant is ended, and gets the new version itself.
CommitRevoke(m) ==
  /\ granting[m].at = "writing"
  /\ granting[m].ask.kind = "revoke"
  /\ grants' = [RevokedGrants(m) EXCEPT ![granting[m].held].version = granting[m].version]
  /\ grantLock' = Unlocked(m)
  /\ ChangeMade(m, granting[m].held)
  /\ UNCHANGED viewing

\* The process dies, or the connection.
ChangeDrops(m) ==
  /\ granting[m].at \in {"selecting", "waiting", "counting", "writing"}
  /\ RefuseChange(m)
  /\ UNCHANGED <<grants, changes, viewing>>

----------------------------------------------------------------------------
(* The administrator's reading: three statements.                          *)

ViewVersion(x) ==
  /\ viewing[x].at = "idle"
  /\ viewing' = [viewing EXCEPT ![x].at = "counted", ![x].version = HighestVersion]
  /\ UNCHANGED <<grants, grantLock, changes, granting, verdict>>

\* Without an active grant the answer is the version alone; an active grant of
\* another version is an error.
ViewActive(x) ==
  /\ viewing[x].at = "counted"
  /\ IF ActiveGrants = {}
     THEN viewing' = [viewing EXCEPT ![x].at = "seen", ![x].grant = NoGrant]
     ELSE \E g \in ActiveGrants :
            viewing' = [viewing EXCEPT
              ![x].at = IF grants[g].version = viewing[x].version THEN "found" ELSE "failed",
              ![x].grant = g]
  /\ UNCHANGED <<grants, grantLock, changes, granting, verdict>>

ViewTags(x) ==
  /\ viewing[x].at = "found"
  /\ viewing' = [viewing EXCEPT ![x].at = "seen", ![x].tags = grants[viewing[x].grant].tags]
  /\ UNCHANGED <<grants, grantLock, changes, granting, verdict>>

ViewAgain(x) ==
  /\ viewing[x].at \in {"seen", "failed"}
  /\ viewing' = [viewing EXCEPT ![x] = [at |-> "idle", version |-> 0, grant |-> NoGrant,
                                        tags |-> {}]]
  /\ UNCHANGED <<grants, grantLock, changes, granting, verdict>>

----------------------------------------------------------------------------
GrantsInit ==
  /\ grants = <<>>
  /\ grantLock = <<>>
  /\ changes = {}
  /\ verdict = [m \in Admin |-> [how |-> "none", version |-> 0]]
  /\ viewing = [x \in Viewer |-> [at |-> "idle", version |-> 0, grant |-> NoGrant, tags |-> {}]]

GrantsNext ==
  \/ \E m \in Admin : \/ LookUpChange(m) \/ SelectActive(m) \/ GetsRow(m)
                      \/ CountVersions(m) \/ CommitSet(m) \/ CommitRevoke(m) \/ ChangeDrops(m)
  \/ \E x \in Viewer : ViewVersion(x) \/ ViewActive(x) \/ ViewTags(x) \/ ViewAgain(x)

----------------------------------------------------------------------------
GrantsTypeOK ==
  /\ \A g \in DOMAIN grants : /\ grants[g].version \in Nat \ {0}
                              /\ grants[g].tags \in Permission
                              /\ grants[g].revoked \in BOOLEAN
  /\ DOMAIN grantLock = DOMAIN grants
  /\ \A g \in DOMAIN grantLock : grantLock[g] \in Admin \cup {NoAdmin}
  /\ \A m \in Admin :
       /\ granting[m].at \in {"idle", "selecting", "waiting", "counting", "writing", "ended"}
       /\ granting[m].held \in DOMAIN grants \cup {NoGrant}
  /\ \A x \in Viewer : viewing[x].at \in {"idle", "counted", "found", "seen", "failed"}

\* The executor never meets two active grants of one operator, whatever was
\* locked.  tool_permission_provider.py:76-80.
OneActiveGrant == Cardinality(ActiveGrants) <= 1

\* A change that held the row of the grant it replaces is the next version: it
\* overwrites no change its author has not seen.
\* tool_permission_admin_store.py:132-180.
LockedChangesAreNext ==
  \A m \in Admin :
    granting[m].at = "writing" /\ granting[m].held # NoGrant =>
      /\ granting[m].held \in ActiveGrants
      /\ HighestVersion = granting[m].ask.expected

\* A key is used once, and who hears of a change has it.
ChangesAreTold ==
  /\ \A c, d \in changes : c.ask.key = d.ask.key => c = d
  /\ \A m \in Admin :
       verdict[m].how \in {"done", "repeated"} =>
         \E c \in changes : c.ask = granting[m].ask /\ c.version = verdict[m].version

\* What is shown together belongs together: the tags of the grant that was
\* active as that version.
ViewsAreTrue ==
  \A x \in Viewer :
    viewing[x].at = "seen" /\ viewing[x].grant # NoGrant =>
      \E c \in changes : /\ c.ask.kind = "set" /\ c.ask.tags = viewing[x].tags
                         /\ c.version = viewing[x].version /\ c.grant = viewing[x].grant

GrantsAreSound ==
  OneActiveGrant /\ LockedChangesAreNext /\ ChangesAreTold /\ ViewsAreTrue

\* Every change is a version of its own.  Not so when a SET that found no
\* active grant to lock has counted before another SET and a REVOKE commit.
VersionsAreDistinct == \A c, d \in changes : c.version = d.version => c = d
=============================================================================
