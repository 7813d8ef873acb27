--------------------------- MODULE RunbookCatalog ---------------------------
(* The versions of one runbook: drafts are saved and published by operators, *)
(* the agent reads what is published.  A head row carries the revision and   *)
(* the pointers to the draft and the published version; every change locks   *)
(* it, leaves an operation under its idempotency key and an audit event in   *)
(* the same commit.  Requests run at read committed: what is between two     *)
(* statements of one of them, others may commit.                             *)
EXTENDS Naturals, FiniteSets

CONSTANTS
  Editor,        \* requests of operators, repeats included
  NoEditor,
  BookVersion,       \* business versions
  Draftable,     \* contents an editor may save
  NoVersion,
  LastMoment     \* bound of the clock

ASSUME CatalogAssumption ==
  NoEditor \notin Editor /\ NoVersion \notin BookVersion /\ LastMoment \in Nat

\* What editors can ask for: A is a set of requests.
EditAsks(A) ==
  \A a \in A : /\ a.kind \in {"save", "publish"} /\ a.version \in BookVersion
               /\ a.content \in Draftable /\ a.expected \in Nat

VARIABLES
  books,       \* of each version: absent, or status, content, revision, time
  head,        \* revision, draft, published, time; or absent
  operations,  \* what was done, by idempotency key
  headLock,    \* the request whose transaction holds the head row
  edit,        \* of each request: what it asks for, and where it is
  editTold,        \* of each request: its answer
  moment       \* the clock

catalogVars == <<books, head, operations, headLock, edit, editTold, moment>>

Absent == [status |-> "ABSENT", content |-> NoVersion, revision |-> 0, updated_at |-> 0]
NoHead == [revision |-> 0, draft |-> NoVersion, published |-> NoVersion,
           updated_at |-> 0, exists |-> FALSE]

\* An operation's key identifies it; its body is compared when it comes again.
OperationUnder(key) == {o \in operations : o.ask.key = key}

Outcome(how, revision) == [how |-> how, revision |-> revision]
Refused == Outcome("refused", 0)

\* The request ends and its transaction with it.
Tell(e, answer) ==
  /\ editTold' = [editTold EXCEPT ![e] = answer]
  /\ edit' = [edit EXCEPT ![e].at = "ended"]
  /\ headLock' = IF headLock = e THEN NoEditor ELSE headLock

\* The same request again gets the result of the first; another body none.
ReplayEdit(e) ==
  \E o \in OperationUnder(edit[e].ask.key) :
    Tell(e, IF o.ask = edit[e].ask THEN Outcome("repeated", o.revision) ELSE Refused)

----------------------------------------------------------------------------
\* The request takes its time and looks for its key.
LookUpEdit(e) ==
  /\ edit[e].at = "idle"
  /\ IF OperationUnder(edit[e].ask.key) # {} THEN ReplayEdit(e)
     ELSE /\ edit' = [edit EXCEPT ![e].at = "looked", ![e].occurred_at = moment]
          /\ UNCHANGED <<editTold, headLock>>
  /\ UNCHANGED <<books, head, operations, moment>>

\* The head row is locked; without one there is nothing to lock, and one is
\* made from the versions there are.
LockHead(e) ==
  /\ edit[e].at = "looked"
  /\ IF head.exists
     THEN /\ headLock = NoEditor
          /\ headLock' = e
          /\ edit' = [edit EXCEPT ![e].at = "locked"]
     ELSE /\ edit' = [edit EXCEPT ![e].at = "founding"]
          /\ UNCHANGED headLock
  /\ UNCHANGED <<books, head, operations, editTold, moment>>

Having(status) == {v \in BookVersion : books[v].status = status}
OneOf(versions) == IF versions = {} THEN NoVersion ELSE CHOOSE v \in versions : TRUE
Latest(S) == CHOOSE n \in S : \A m \in S : m <= n

FoundedHead(e) ==
  [revision |-> Latest({0} \cup {books[v].revision : v \in BookVersion}),
   draft |-> OneOf(Having("DRAFT")),
   published |-> OneOf(Having("PUBLISHED")),
   updated_at |-> IF Having("ABSENT") = BookVersion THEN edit[e].occurred_at
                  ELSE Latest({books[v].updated_at : v \in BookVersion \ Having("ABSENT")}),
   exists |-> TRUE]

\* The changes, applied to head h at revision h.revision + 1.
Savable(e, h) ==
  LET v == edit[e].ask.version IN
  /\ h.draft \in {NoVersion, v}
  /\ \/ books[v].status = "ABSENT" /\ h.draft = NoVersion
     \/ books[v].status = "DRAFT" /\ books[v].updated_at <= edit[e].occurred_at

SavedDraft(e, h) ==
  LET v == edit[e].ask.version IN
  /\ books' = [books EXCEPT ![v] = [status |-> "DRAFT", content |-> edit[e].ask.content,
                                    revision |-> h.revision + 1,
                                    updated_at |-> edit[e].occurred_at]]
  /\ head' = [h EXCEPT !.revision = @ + 1, !.draft = v, !.updated_at = edit[e].occurred_at]

Publishable(e, h) ==
  LET v == edit[e].ask.version IN
  /\ books[v].status = "DRAFT"
  /\ h.draft = v
  /\ books[v].updated_at <= edit[e].occurred_at
  /\ h.published # NoVersion => books[h.published].updated_at <= edit[e].occurred_at

\* The old version is archived in the commit that publishes the new one.
Published(e, h) ==
  LET v == edit[e].ask.version
      t == edit[e].occurred_at
  IN
  /\ books' = [w \in BookVersion |->
       CASE w = v -> [books[w] EXCEPT !.status = "PUBLISHED", !.revision = h.revision + 1,
                                      !.updated_at = t]
         [] w = h.published /\ w # v ->
              [books[w] EXCEPT !.status = "ARCHIVED", !.revision = h.revision + 1,
                               !.updated_at = t]
         [] OTHER -> books[w]]
  /\ head' = [h EXCEPT !.revision = @ + 1, !.draft = NoVersion, !.published = v,
                       !.updated_at = t]

EditRecorded(e, h) ==
  operations' = operations \cup
    {[ask |-> edit[e].ask, revision |-> h.revision + 1]}

\* Mutation: the revision the editor saw is not compared.
AnyRevision(e, h) == h.updated_at <= edit[e].occurred_at

\* The editor saw this revision, and no later time has been written.
AsExpected(e, h) ==
  /\ h.revision = edit[e].ask.expected
  /\ h.updated_at <= edit[e].occurred_at

\* Changes, operation and event in one commit; the answer may be lost.
CommitEdit(e, h) ==
  /\ \/ edit[e].ask.kind = "save" /\ Savable(e, h) /\ SavedDraft(e, h)
     \/ edit[e].ask.kind = "publish" /\ Publishable(e, h) /\ Published(e, h)
  /\ EditRecorded(e, h)
  /\ \E answer \in {Outcome("done", h.revision + 1), Refused} : Tell(e, answer)

MayApply(e, h) ==
  /\ AsExpected(e, h)
  /\ IF edit[e].ask.kind = "save" THEN Savable(e, h) ELSE Publishable(e, h)

\* Under the lock the key is looked for again, then the change is made.
Apply(e) ==
  /\ edit[e].at = "locked"
  /\ IF OperationUnder(edit[e].ask.key) # {}
     THEN ReplayEdit(e) /\ UNCHANGED <<books, head, operations>>
     ELSE IF MayApply(e, head) THEN CommitEdit(e, head)
     ELSE Tell(e, Refused) /\ UNCHANGED <<books, head, operations>>
  /\ UNCHANGED moment

\* The first change inserts the head: whoever is second meets its key, and
\* looks for its own operation in a new transaction.
Found(e) ==
  /\ edit[e].at = "founding"
  /\ IF head.exists
     THEN /\ IF OperationUnder(edit[e].ask.key) # {} THEN ReplayEdit(e) ELSE Tell(e, Refused)
          /\ UNCHANGED <<books, head, operations>>
     ELSE IF MayApply(e, FoundedHead(e)) THEN CommitEdit(e, FoundedHead(e))
     ELSE Tell(e, Refused) /\ UNCHANGED <<books, head, operations>>
  /\ UNCHANGED moment

\* The process dies, or the connection: the transaction is rolled back.
EditDrops(e) ==
  /\ edit[e].at \in {"looked", "locked", "founding"}
  /\ Tell(e, Refused)
  /\ UNCHANGED <<books, head, operations, moment>>

MomentPasses ==
  /\ moment < LastMoment
  /\ moment' = moment + 1
  /\ UNCHANGED <<books, head, operations, headLock, edit, editTold>>

----------------------------------------------------------------------------
\* A new runbook, or one from the time before there were heads.
FirstBooks ==
  {[v \in BookVersion |-> Absent]} \cup
  {[v \in BookVersion |-> IF v = w THEN [status |-> "PUBLISHED", content |-> c,
                                        revision |-> 1, updated_at |-> 0]
                         ELSE Absent] : w \in BookVersion, c \in Draftable}

CatalogInit ==
  /\ books \in FirstBooks
  /\ head = NoHead
  /\ operations = {}
  /\ headLock = NoEditor
  /\ editTold = [e \in Editor |-> Outcome("none", 0)]
  /\ moment = 0

CatalogNext ==
  \/ MomentPasses
  \/ \E e \in Editor : LookUpEdit(e) \/ LockHead(e) \/ Apply(e) \/ Found(e) \/ EditDrops(e)

----------------------------------------------------------------------------
CatalogTypeOK ==
  /\ \A v \in BookVersion : /\ books[v].status \in {"ABSENT", "DRAFT", "PUBLISHED", "ARCHIVED"}
                        /\ books[v].content \in Draftable \cup {NoVersion}
                        /\ books[v].revision \in Nat
                        /\ books[v].updated_at \in 0..LastMoment
  /\ head.draft \in BookVersion \cup {NoVersion}
  /\ head.published \in BookVersion \cup {NoVersion}
  /\ head.revision \in Nat
  /\ headLock \in Editor \cup {NoEditor}
  /\ \A e \in Editor : edit[e].at \in {"idle", "looked", "locked", "founding", "ended"}
  /\ moment \in 0..LastMoment

\* The head says what the versions are: one draft at most, one published
\* version at most, and the revision of the last of them.
\* runbook_admin_store.py:134-197.
HeadIsTrue ==
  head.exists =>
    /\ Having("DRAFT") = IF head.draft = NoVersion THEN {} ELSE {head.draft}
    /\ Having("PUBLISHED") = IF head.published = NoVersion THEN {} ELSE {head.published}
    /\ head.revision = Latest({books[v].revision : v \in BookVersion})

\* Published is what the publisher saw: the content saved at the revision
\* that the request to publish expected.
PublishedAsSeen ==
  \A p, s \in operations :
    p.ask.kind = "publish" /\ s.ask.kind = "save" /\ s.revision = p.ask.expected =>
      /\ s.ask.version = p.ask.version
      /\ books[p.ask.version].content = s.ask.content

\* Each revision is one operation, and who hears of one has it.
RevisionsAreOperations ==
  /\ \A o, p \in operations : o.revision = p.revision \/ o.ask.key = p.ask.key => o = p
  /\ \A e \in Editor :
       editTold[e].how \in {"done", "repeated"} =>
         [ask |-> edit[e].ask, revision |-> editTold[e].revision] \in operations

\* What was published stays as it is, and once there is a published version
\* the agent finds exactly one at every moment.
PublishedIsKept ==
  [][/\ \A v \in BookVersion :
          books[v].status \in {"PUBLISHED", "ARCHIVED"} =>
            /\ books'[v].content = books[v].content
            /\ books'[v].status \in {books[v].status, "ARCHIVED"}
     /\ Having("PUBLISHED") # {} => Cardinality(Having("PUBLISHED")') = 1]_catalogVars

\* The states of the catalog: the three above hold together.
RunbooksAreSound == HeadIsTrue /\ PublishedAsSeen /\ RevisionsAreOperations
=============================================================================
