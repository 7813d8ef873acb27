----------------------------- MODULE Workspaces -----------------------------
(* Workspaces of a tenant: where its telemetry is, which policy and tools its *)
(* investigations use.  A change first looks for its key, holding nothing;    *)
(* then it takes the row, if there is one, and compares the revision; the     *)
(* indexes on the key and on the name decide what the row could not.  The     *)
(* operation, its result and the audit event commit with the change.          *)
EXTENDS Naturals, FiniteSets

CONSTANTS
  Workspace,
  Upsert,      \* requests, repeats included
  NoUpsert

ASSUME WorkspaceAssumption == NoUpsert \notin Upsert

\* What can be asked of workspaces: A is a set of requests.
UpsertAsks(A) ==
  \A a \in A : /\ a = [workspace |-> a.workspace, key |-> a.key, name |-> a.name,
                       content |-> a.content, expected |-> a.expected]
               /\ a.workspace \in Workspace /\ a.expected \in Nat /\ a.name # "none"

VARIABLES
  workspaces,      \* of each workspace: name, content, revision
  workspaceHolder, \* of each workspace: the request that holds its row
  upserts,      \* operations: the request, and the revision it made
  upserting,       \* of each request: what it asks for, where it is, the revision it read
  upsertReply      \* of each request: its answer

workspaceVars == <<workspaces, workspaceHolder, upserts, upserting, upsertReply>>

Unnamed == [name |-> "none", content |-> "none", revision |-> 0]
\* The name is kept without what is sensitive in it, and must be left with some.
MayBeNamed(name) == name # "secret"
UpsertUnder(key) == {o \in upserts : o.ask.key = key}

\* What a repeat has in common with the request it repeats.
UpsertHash(ask) == <<ask.workspace, ask.name, ask.content, ask.expected>>

\* The row, as the request wants it.
AsRequested(ask) == [name |-> ask.name, content |-> ask.content, revision |-> ask.expected + 1]

AnswerUpsert(u, answer) ==
  /\ upsertReply' = [upsertReply EXCEPT ![u] = answer]
  /\ upserting' = [upserting EXCEPT ![u].at = "ended"]
  /\ workspaceHolder' = [w \in Workspace |->
       IF workspaceHolder[w] = u THEN NoUpsert ELSE workspaceHolder[w]]

RefuseUpsert(u) == AnswerUpsert(u, [how |-> "refused", revision |-> 0])

\* What was done under the key before, if it is the same request.
ExistingResult(u) ==
  \E o \in UpsertUnder(upserting[u].ask.key) :
    IF UpsertHash(o.ask) = UpsertHash(upserting[u].ask)
    THEN AnswerUpsert(u, [how |-> "repeated", revision |-> o.revision])
    ELSE RefuseUpsert(u)

FindOperation(u) ==
  /\ upserting[u].at = "idle"
  /\ IF ~MayBeNamed(upserting[u].ask.name) THEN RefuseUpsert(u)
     ELSE IF UpsertUnder(upserting[u].ask.key) # {} THEN ExistingResult(u)
     ELSE /\ upserting' = [upserting EXCEPT ![u].at = "locking"]
          /\ UNCHANGED <<upsertReply, workspaceHolder>>
  /\ UNCHANGED <<workspaces, upserts>>

RevisionIsExpected(u, w) == workspaces[w].revision = upserting[u].ask.expected

\* A workspace that does not exist has no row to hold.
HoldWorkspace(u) ==
  LET w == upserting[u].ask.workspace
  IN /\ upserting[u].at = "locking"
     /\ workspaceHolder[w] = NoUpsert
     /\ IF RevisionIsExpected(u, w)
        THEN /\ upserting' = [upserting EXCEPT ![u].at = "applying",
                                               ![u].seen = workspaces[w].revision]
             /\ workspaceHolder' = IF workspaces[w] = Unnamed THEN workspaceHolder
                                   ELSE [workspaceHolder EXCEPT ![w] = u]
             /\ UNCHANGED upsertReply
        ELSE RefuseUpsert(u)
     /\ UNCHANGED <<workspaces, upserts>>

Collides(u) ==
  LET ask == upserting[u].ask
  IN \/ UpsertUnder(ask.key) # {}
     \/ \E w \in Workspace \ {ask.workspace} : workspaces[w].name = ask.name
     \/ upserting[u].seen = 0 /\ workspaces[ask.workspace] # Unnamed

\* The row, the operation and the event, or what an index refuses, which undoes
\* all of it.
ApplyUpsert(u) ==
  LET ask == upserting[u].ask
  IN /\ upserting[u].at = "applying"
     /\ IF Collides(u)
        THEN /\ upserting' = [upserting EXCEPT ![u].at = "recovering"]
             /\ workspaceHolder' = [w \in Workspace |->
                  IF workspaceHolder[w] = u THEN NoUpsert ELSE workspaceHolder[w]]
             /\ UNCHANGED <<workspaces, upserts, upsertReply>>
        ELSE /\ workspaces' = [workspaces EXCEPT ![ask.workspace] = AsRequested(ask)]
             /\ upserts' = upserts \cup {[ask |-> ask, revision |-> ask.expected + 1]}
             /\ \E how \in {"done", "lost"} :
                  AnswerUpsert(u, [how |-> how, revision |-> ask.expected + 1])

\* Another transaction looks for the operation that was in the way.
RecoverOperation(u) ==
  /\ upserting[u].at = "recovering"
  /\ IF UpsertUnder(upserting[u].ask.key) # {} THEN ExistingResult(u) ELSE RefuseUpsert(u)
  /\ UNCHANGED <<workspaces, upserts>>

UpsertDrops(u) ==
  /\ upserting[u].at \in {"locking", "applying", "recovering"}
  /\ RefuseUpsert(u)
  /\ UNCHANGED <<workspaces, upserts>>

----------------------------------------------------------------------------
WorkspacesInit ==
  /\ workspaces = [w \in Workspace |-> Unnamed]
  /\ workspaceHolder = [w \in Workspace |-> NoUpsert]
  /\ upserts = {}
  /\ upsertReply = [u \in Upsert |-> [how |-> "none", revision |-> 0]]

WorkspacesNext ==
  \E u \in Upsert : \/ FindOperation(u) \/ HoldWorkspace(u) \/ ApplyUpsert(u)
                    \/ RecoverOperation(u) \/ UpsertDrops(u)

----------------------------------------------------------------------------
WorkspacesTypeOK ==
  /\ \A w \in Workspace : /\ workspaces[w].revision \in Nat
                          /\ workspaceHolder[w] \in Upsert \cup {NoUpsert}
  /\ \A u \in Upsert :
       /\ upserting[u].at \in {"idle", "locking", "applying", "recovering", "ended"}
       /\ upserting[u].seen \in Nat

\* A workspace is what its last operation made of it, each revision is the work
\* of one operation, and no operation replaced a revision its author had not
\* seen.  workspace_repository.py:127-180.
HistoryIsWhole ==
  \A w \in Workspace :
    LET history == {o \in upserts : o.ask.workspace = w}
    IN /\ Cardinality(history) = workspaces[w].revision
       /\ {o.revision : o \in history} = 1..workspaces[w].revision
       /\ \A o \in history : o.revision = workspaces[w].revision =>
            o.ask.name = workspaces[w].name /\ o.ask.content = workspaces[w].content

\* A key is used once, a name by one workspace, and who hears of a change has it
\* with the revision it got.  workspace_repository.py:182-228.
WorkspacesAreTold ==
  /\ \A o, p \in upserts : o.ask.key = p.ask.key => o = p
  /\ \A v, w \in Workspace :
       workspaces[v] # Unnamed /\ workspaces[v].name = workspaces[w].name => v = w
  /\ \A u \in Upsert :
       upsertReply[u].how \in {"done", "repeated"} =>
         [ask |-> upserting[u].ask, revision |-> upsertReply[u].revision] \in upserts

WorkspacesAreSound == HistoryIsWhole /\ WorkspacesAreTold
=============================================================================
