--------------------------- MODULE ComponentProofs ---------------------------
(* Components each alone, for any number of requests and any interleaving:    *)
(* what administrators do to runbooks, grants, releases and workspaces, calls  *)
(* that leave the platform and the range's controller.  Each section has the   *)
(* inductive invariant of one module and the theorems that follow from it.    *)
(* A request is of a set A of requests; nothing else is assumed of A.         *)
EXTENDS RunbookCatalog, ToolGrants, DatasetReleases, Workspaces, OutboundCalls,
        RangeController, FiniteSetTheorems, TLAPS

----------------------------------------------------------------------------
(* Runbooks.  Every change holds the head row or inserts it, so the head a     *)
(* change has read is the one it replaces.                                    *)

EditSteps == {"idle", "looked", "locked", "founding", "ended"}
EditAnswers == [how : {"none", "done", "repeated", "refused"}, revision : Nat]
Shown == {"PUBLISHED", "ARCHIVED"}

BookRow == [status : {"ABSENT", "DRAFT", "PUBLISHED", "ARCHIVED"},
            content : Draftable \cup {NoVersion}, revision : Nat, updated_at : 0..LastMoment]
HeadRow == [revision : Nat, draft : BookVersion \cup {NoVersion},
            published : BookVersion \cup {NoVersion}, updated_at : 0..LastMoment, exists : BOOLEAN]

CatalogTyped(A) ==
  /\ books \in [BookVersion -> BookRow] /\ head \in HeadRow
  /\ operations \in SUBSET [ask : A, revision : Nat]
  /\ headLock \in Editor \cup {NoEditor}
  /\ edit \in [Editor -> [ask : A, at : EditSteps, occurred_at : 0..LastMoment]]
  /\ editTold \in [Editor -> EditAnswers]
  /\ moment \in 0..LastMoment

\* A head says what the versions are, whether it is the row or what the first change
\* makes up for it.
HeadSays(h) ==
  /\ h \in HeadRow /\ h.exists
  /\ Having("DRAFT") = IF h.draft = NoVersion THEN {} ELSE {h.draft}
  /\ Having("PUBLISHED") = IF h.published = NoVersion THEN {} ELSE {h.published}
  /\ \A v \in BookVersion : books[v].revision <= h.revision

\* The operations there are, as the head counts them: publications are final, and the last
\* change, if it saved a draft, is the draft there is.
OperationsFit(h) ==
  \A o \in operations :
    /\ o.revision \in 1..h.revision
    /\ o.ask.kind = "publish" => /\ o.revision = o.ask.expected + 1
                                 /\ books[o.ask.version].status \in Shown
    /\ o.ask.kind = "save" /\ o.revision = h.revision =>
         h.draft = o.ask.version /\ books[o.ask.version].content = o.ask.content

HeadFits ==
  IF head.exists
  THEN HeadSays(head) /\ OperationsFit(head) /\ \E v \in BookVersion : books[v].revision = head.revision
  ELSE books \in FirstBooks /\ operations = {}

LockersHold == \A e \in Editor : edit[e].at = "locked" => headLock = e /\ head.exists

CatalogInv(A) ==
  CatalogTyped(A) /\ HeadFits /\ LockersHold /\ PublishedAsSeen /\ RevisionsAreOperations

\* The first state, whatever requests of A are made.
CatalogStart(A) ==
  CatalogInit /\ edit \in [Editor -> [ask : A, at : {"idle"}, occurred_at : {0}]]
----------------------------------------------------------------------------
\* The first versions: none, or one that is published.
LEMMA FirstBooksTyped ==
  ASSUME NEW f \in FirstBooks
  PROVE  /\ f \in [BookVersion -> BookRow]
         /\ \/ \A v \in BookVersion : f[v] = Absent
            \/ \E w \in BookVersion :
                 /\ f[w].status = "PUBLISHED" /\ f[w].revision = 1 /\ f[w].updated_at = 0
                 /\ \A v \in BookVersion \ {w} : f[v] = Absent
<1>0. 0 \in 0..LastMoment
  BY CatalogAssumption DEF CatalogAssumption
<1>1. Absent \in BookRow
  BY <1>0 DEF Absent, BookRow
<1>2. CASE f = [v \in BookVersion |-> Absent]
  BY <1>1, <1>2
<1>3. ASSUME NEW w \in BookVersion, NEW c \in Draftable,
             f = [v \in BookVersion |-> IF v = w THEN [status |-> "PUBLISHED", content |-> c,
                                                      revision |-> 1, updated_at |-> 0]
                                        ELSE Absent]
      PROVE  /\ f \in [BookVersion -> BookRow]
             /\ f[w].status = "PUBLISHED" /\ f[w].revision = 1 /\ f[w].updated_at = 0
             /\ \A v \in BookVersion \ {w} : f[v] = Absent
  <2>1. [status |-> "PUBLISHED", content |-> c, revision |-> 1, updated_at |-> 0] \in BookRow
    BY <1>0 DEF BookRow
  <2> QED BY <1>1, <1>3, <2>1
<1> QED BY <1>2, <1>3 DEF FirstBooks

LEMMA CatalogBegins ==
  ASSUME NEW A, CatalogStart(A) PROVE CatalogInv(A)
<1>0. 0 \in 0..LastMoment
  BY CatalogAssumption DEF CatalogAssumption
<1>1. books \in [BookVersion -> BookRow]
  BY FirstBooksTyped DEF CatalogStart, CatalogInit
<1>2. NoHead \in HeadRow
  BY <1>0 DEF NoHead, HeadRow
<1>3. editTold \in [Editor -> EditAnswers] /\ \A e \in Editor : editTold[e].how = "none"
  BY DEF CatalogStart, CatalogInit, Outcome, EditAnswers
<1>4. CatalogTyped(A)
  BY <1>0, <1>1, <1>2, <1>3 DEF CatalogStart, CatalogInit, CatalogTyped, EditSteps
<1>5. HeadFits /\ LockersHold /\ PublishedAsSeen
  BY DEF CatalogStart, CatalogInit, HeadFits, LockersHold, PublishedAsSeen, NoHead
<1>6. RevisionsAreOperations
  BY <1>3 DEF CatalogStart, CatalogInit, RevisionsAreOperations
<1> QED BY <1>4, <1>5, <1>6 DEF CatalogInv

\* A step of one request that writes no row: it may take the head or release it.
EditMoves(A, e) ==
  /\ UNCHANGED <<books, head, operations, moment>>
  /\ edit' \in [Editor -> [ask : A, at : EditSteps, occurred_at : 0..LastMoment]]
  /\ editTold' \in [Editor -> EditAnswers]
  /\ headLock' \in Editor \cup {NoEditor}
  /\ edit'[e].ask = edit[e].ask
  /\ \A r \in Editor \ {e} : edit'[r] = edit[r] /\ editTold'[r] = editTold[r]
  /\ \A r \in Editor \ {e} : headLock = r => headLock' = r

LEMMA EditMovesKeep ==
  ASSUME NEW A, CatalogInv(A), NEW e \in Editor, EditMoves(A, e),
         edit'[e].at = "locked" => headLock' = e /\ head.exists,
         editTold'[e].how \in {"done", "repeated"} =>
           [ask |-> edit[e].ask, revision |-> editTold'[e].revision] \in operations
  PROVE  CatalogInv(A)'
<1>1. CatalogTyped(A)'
  BY DEF CatalogInv, CatalogTyped, EditMoves
<1>2. HeadFits' /\ PublishedAsSeen'
  BY DEF CatalogInv, HeadFits, HeadSays, OperationsFit, PublishedAsSeen, EditMoves, Having
<1>3. LockersHold'
  BY DEF CatalogInv, LockersHold, EditMoves
<1>4. RevisionsAreOperations'
  BY DEF CatalogInv, RevisionsAreOperations, EditMoves
<1> QED BY <1>1, <1>2, <1>3, <1>4 DEF CatalogInv

\* An answer ends the request and releases the head.
LEMMA AnswersEndEdits ==
  ASSUME NEW A, CatalogTyped(A), NEW e \in Editor, NEW answer \in EditAnswers, Tell(e, answer)
  PROVE  /\ edit' \in [Editor -> [ask : A, at : EditSteps, occurred_at : 0..LastMoment]]
         /\ editTold' \in [Editor -> EditAnswers]
         /\ headLock' \in Editor \cup {NoEditor}
         /\ edit'[e].ask = edit[e].ask /\ edit'[e].at = "ended" /\ editTold'[e] = answer
         /\ \A r \in Editor \ {e} : edit'[r] = edit[r] /\ editTold'[r] = editTold[r]
         /\ \A r \in Editor \ {e} : headLock = r => headLock' = r
  BY DEF CatalogTyped, Tell, EditSteps

LEMMA RefusedEdits ==
  ASSUME NEW A, CatalogInv(A), NEW e \in Editor, Tell(e, Refused),
         UNCHANGED <<books, head, operations, moment>>
  PROVE  CatalogInv(A)'
<1>1. Refused \in EditAnswers /\ Refused.how = "refused" /\ CatalogTyped(A)
  BY DEF Refused, Outcome, EditAnswers, CatalogInv
<1>2. EditMoves(A, e) /\ edit'[e].at = "ended" /\ editTold'[e] = Refused
  BY <1>1, AnswersEndEdits DEF EditMoves
<1>3. edit'[e].at # "locked" /\ editTold'[e].how \notin {"done", "repeated"}
  BY <1>1, <1>2
<1> QED BY <1>2, <1>3, EditMovesKeep

LEMMA RepeatedEdits ==
  ASSUME NEW A, CatalogInv(A), NEW e \in Editor, ReplayEdit(e),
         UNCHANGED <<books, head, operations, moment>>
  PROVE  CatalogInv(A)'
<1>1. PICK o \in OperationUnder(edit[e].ask.key) :
        Tell(e, IF o.ask = edit[e].ask THEN Outcome("repeated", o.revision) ELSE Refused)
  BY DEF ReplayEdit
<1>2. CASE o.ask # edit[e].ask
  BY <1>1, <1>2, RefusedEdits
<1>3. CASE o.ask = edit[e].ask
  <2>1. o \in operations /\ o = [ask |-> edit[e].ask, revision |-> o.revision] /\ o.revision \in Nat
    BY <1>1, <1>3 DEF CatalogInv, CatalogTyped, OperationUnder
  <2> DEFINE answer == Outcome("repeated", o.revision)
  <2>2. answer \in EditAnswers /\ answer.revision = o.revision
    BY <2>1 DEF Outcome, EditAnswers
  <2>3. Tell(e, answer) /\ CatalogTyped(A)
    BY <1>1, <1>3 DEF CatalogInv
  <2> HIDE DEF answer
  <2>4. EditMoves(A, e) /\ edit'[e].at = "ended" /\ editTold'[e] = answer
    BY <2>2, <2>3, AnswersEndEdits DEF EditMoves
  <2>5. edit'[e].at # "locked" /\ [ask |-> edit[e].ask, revision |-> editTold'[e].revision] \in operations
    BY <2>1, <2>2, <2>4
  <2> QED BY <2>4, <2>5, EditMovesKeep
<1> QED BY <1>2, <1>3

LEMMA LookUpsKeepCatalog ==
  ASSUME NEW A, CatalogInv(A), NEW e \in Editor, LookUpEdit(e) \/ LockHead(e) \/ EditDrops(e)
  PROVE  CatalogInv(A)'
<1>0. \A r \in Editor : editTold[r].how \in {"done", "repeated"} =>
        [ask |-> edit[r].ask, revision |-> editTold[r].revision] \in operations
  BY DEF CatalogInv, RevisionsAreOperations
<1>1. CASE LookUpEdit(e)
  <2>1. CASE ReplayEdit(e)
    BY <1>1, <2>1, RepeatedEdits DEF LookUpEdit
  <2>2. CASE edit' = [edit EXCEPT ![e].at = "looked", ![e].occurred_at = moment]
             /\ UNCHANGED <<editTold, headLock>>
    <3>1. EditMoves(A, e) /\ edit'[e].at = "looked" /\ editTold'[e] = editTold[e]
      BY <1>1, <2>2 DEF EditMoves, LookUpEdit, CatalogInv, CatalogTyped, EditSteps
    <3> QED BY <1>0, <3>1, EditMovesKeep
  <2> QED BY <1>1, <2>1, <2>2 DEF LookUpEdit
<1>2. CASE LockHead(e)
  <2>1. CASE head.exists
    <3>1. /\ headLock = NoEditor /\ headLock' = e
          /\ edit' = [edit EXCEPT ![e].at = "locked"]
          /\ UNCHANGED <<books, head, operations, editTold, moment>>
      BY <1>2, <2>1 DEF LockHead
    <3>2. EditMoves(A, e) /\ edit'[e].at = "locked" /\ editTold'[e] = editTold[e]
      BY <3>1, CatalogAssumption DEF EditMoves, CatalogInv, CatalogTyped, EditSteps, CatalogAssumption
    <3> QED BY <1>0, <2>1, <3>1, <3>2, EditMovesKeep
  <2>2. CASE ~head.exists
    <3>1. EditMoves(A, e) /\ edit'[e].at = "founding" /\ editTold'[e] = editTold[e]
      BY <1>2, <2>2 DEF EditMoves, LockHead, CatalogInv, CatalogTyped, EditSteps
    <3> QED BY <1>0, <3>1, EditMovesKeep
  <2> QED BY <2>1, <2>2
<1>3. CASE EditDrops(e)
  BY <1>3, RefusedEdits DEF EditDrops
<1> QED BY <1>1, <1>2, <1>3
----------------------------------------------------------------------------
\* What a change makes of the versions and the head.
Changes(e, h) ==
  LET v == edit[e].ask.version
      t == edit[e].occurred_at
      n == h.revision + 1
  IN /\ books' \in [BookVersion -> BookRow] /\ head' \in HeadRow /\ head'.exists
     /\ head'.revision = n /\ books'[v].revision = n
     /\ \A w \in BookVersion : books'[w].revision <= n
     /\ edit[e].ask.kind = "save" =>
          /\ head'.draft = v /\ head'.published = h.published
          /\ books[v].status \in {"ABSENT", "DRAFT"} /\ h.draft \in {NoVersion, v}
          /\ books'[v].status = "DRAFT" /\ books'[v].content = edit[e].ask.content
          /\ \A w \in BookVersion \ {v} : books'[w] = books[w]
     /\ edit[e].ask.kind = "publish" =>
          /\ head'.draft = NoVersion /\ head'.published = v
          /\ books[v].status = "DRAFT" /\ h.draft = v
          /\ books'[v].status = "PUBLISHED" /\ books'[v].content = books[v].content
          /\ \A w \in BookVersion \ {v} :
               IF w = h.published
               THEN books'[w].status = "ARCHIVED" /\ books'[w].content = books[w].content
               ELSE books'[w] = books[w]

LEMMA SavesChange ==
  ASSUME NEW A, EditAsks(A), CatalogTyped(A), NEW e \in Editor, NEW h, HeadSays(h),
         edit[e].ask.kind = "save", Savable(e, h), SavedDraft(e, h)
  PROVE  Changes(e, h)
<1> SUFFICES ASSUME NEW v, v = edit[e].ask.version, NEW t, t = edit[e].occurred_at,
                    NEW c, c = edit[e].ask.content, NEW n, n = h.revision + 1
             PROVE  Changes(e, h)
  OBVIOUS
<1> DEFINE V == BookVersion \cup {NoVersion}
           T == 0..LastMoment
<1>0. v \in BookVersion /\ t \in T /\ c \in Draftable /\ n \in Nat
  BY DEF CatalogTyped, EditAsks, HeadSays, HeadRow
<1>1. /\ books' = [books EXCEPT ![v] = [status |-> "DRAFT", content |-> c, revision |-> n,
                                        updated_at |-> t]]
      /\ head' = [h EXCEPT !.revision = @ + 1, !.draft = v, !.updated_at = t]
  BY DEF SavedDraft
<1>2. h \in [revision : Nat, draft : V, published : V, updated_at : T, exists : BOOLEAN]
      /\ HeadRow = [revision : Nat, draft : V, published : V, updated_at : T, exists : BOOLEAN]
  BY DEF HeadSays, HeadRow
<1>3. head' = [revision |-> n, draft |-> v, published |-> h.published, updated_at |-> t,
               exists |-> h.exists]
  <2> HIDE DEF V, T
  <2> QED BY ONLY <1>1, <1>2, n = h.revision + 1
<1>4. head' \in HeadRow
  <2>1. v \in V
    BY <1>0
  <2> HIDE DEF V, T
  <2> QED BY <1>0, <1>2, <1>3, <2>1
<1>5. [status |-> "DRAFT", content |-> c, revision |-> n, updated_at |-> t] \in BookRow
  BY <1>0 DEF BookRow
<1>6. books' \in [BookVersion -> BookRow]
  BY <1>0, <1>1, <1>5 DEF CatalogTyped
<1>7. /\ books'[v].status = "DRAFT" /\ books'[v].content = c /\ books'[v].revision = n
      /\ \A w \in BookVersion \ {v} : books'[w] = books[w]
  BY <1>0, <1>1 DEF CatalogTyped
<1>8. \A w \in BookVersion : books'[w].revision <= n
  <2>1. ASSUME NEW w \in BookVersion, w # v PROVE books'[w].revision <= n
    <3>1. books[w].revision \in Nat /\ h.revision \in Nat /\ books[w].revision <= h.revision
      BY <1>2 DEF CatalogTyped, BookRow, HeadSays
    <3> QED BY <1>7, <2>1, <3>1
  <2> QED BY <1>0, <1>7, <2>1
<1>9. books[v].status \in {"ABSENT", "DRAFT"} /\ h.draft \in {NoVersion, v}
  BY DEF Savable
<1>10. h.exists /\ head'.exists = h.exists /\ head'.revision = n /\ head'.draft = v
       /\ head'.published = h.published
  BY <1>3 DEF HeadSays
<1> HIDE DEF V, T
<1> QED BY <1>4, <1>6, <1>7, <1>8, <1>9, <1>10 DEF Changes

LEMMA PublicationsChange ==
  ASSUME NEW A, EditAsks(A), CatalogTyped(A), NEW e \in Editor, NEW h, HeadSays(h),
         edit[e].ask.kind = "publish", Publishable(e, h), Published(e, h)
  PROVE  Changes(e, h)
<1> SUFFICES ASSUME NEW v, v = edit[e].ask.version, NEW t, t = edit[e].occurred_at,
                    NEW n, n = h.revision + 1
             PROVE  Changes(e, h)
  OBVIOUS
<1> DEFINE V == BookVersion \cup {NoVersion}
           T == 0..LastMoment
           S == {"ABSENT", "DRAFT", "PUBLISHED", "ARCHIVED"}
           D == Draftable \cup {NoVersion}
<1>0. v \in BookVersion /\ t \in T /\ n \in Nat
  BY DEF CatalogTyped, EditAsks, HeadSays, HeadRow
<1>1. /\ books' = [w \in BookVersion |->
           CASE w = v -> [books[w] EXCEPT !.status = "PUBLISHED", !.revision = n, !.updated_at = t]
             [] w = h.published /\ w # v ->
                  [books[w] EXCEPT !.status = "ARCHIVED", !.revision = n, !.updated_at = t]
             [] OTHER -> books[w]]
      /\ head' = [h EXCEPT !.revision = @ + 1, !.draft = NoVersion, !.published = v, !.updated_at = t]
  BY DEF Published
<1>2. h \in [revision : Nat, draft : V, published : V, updated_at : T, exists : BOOLEAN]
      /\ HeadRow = [revision : Nat, draft : V, published : V, updated_at : T, exists : BOOLEAN]
  BY DEF HeadSays, HeadRow
<1>3. head' = [revision |-> n, draft |-> NoVersion, published |-> v, updated_at |-> t,
               exists |-> h.exists]
  <2> HIDE DEF V, T
  <2> QED BY ONLY <1>1, <1>2, n = h.revision + 1
<1>4. head' \in HeadRow
  <2>1. v \in V /\ NoVersion \in V
    BY <1>0
  <2> HIDE DEF V, T
  <2> QED BY <1>0, <1>2, <1>3, <2>1
<1>5. BookRow = [status : S, content : D, revision : Nat, updated_at : T]
      /\ "PUBLISHED" \in S /\ "ARCHIVED" \in S
  BY DEF BookRow
<1>6. ASSUME NEW b \in BookRow, NEW s \in S, NEW x, x = [b EXCEPT !.status = s, !.revision = n, !.updated_at = t]
      PROVE  x \in BookRow /\ x.status = s /\ x.content = b.content /\ x.revision = n
  <2> HIDE DEF S, D, T
  <2> QED BY <1>0, <1>5, <1>6
<1>7. \A w \in BookVersion : books[w] \in BookRow
  BY DEF CatalogTyped
<1>8. /\ books'[v] \in BookRow /\ books'[v].status = "PUBLISHED"
      /\ books'[v].content = books[v].content /\ books'[v].revision = n
  <2>1. books'[v] = [books[v] EXCEPT !.status = "PUBLISHED", !.revision = n, !.updated_at = t]
    BY <1>0, <1>1
  <2> QED BY <1>0, <1>5, <1>6, <1>7, <2>1
<1>9. ASSUME NEW w \in BookVersion, w # v
      PROVE  /\ books'[w] \in BookRow
             /\ IF w = h.published
                THEN books'[w].status = "ARCHIVED" /\ books'[w].content = books[w].content
                     /\ books'[w].revision = n
                ELSE books'[w] = books[w]
  <2>1. CASE w = h.published
    <3>1. books'[w] = [books[w] EXCEPT !.status = "ARCHIVED", !.revision = n, !.updated_at = t]
      BY <1>1, <1>9, <2>1
    <3>2. books[w] \in BookRow /\ "ARCHIVED" \in S
      BY <1>5, <1>7
    <3>3. /\ books'[w] \in BookRow /\ books'[w].status = "ARCHIVED"
          /\ books'[w].content = books[w].content /\ books'[w].revision = n
      <4> SUFFICES ASSUME NEW b, b = books[w], NEW x, x = books'[w]
                   PROVE  /\ x \in BookRow /\ x.status = "ARCHIVED"
                          /\ x.content = b.content /\ x.revision = n
        OBVIOUS
      <4>1. b \in BookRow /\ x = [b EXCEPT !.status = "ARCHIVED", !.revision = n, !.updated_at = t]
        BY <3>1, <3>2
      <4> HIDE DEF S, D, T
      <4> QED BY ONLY <1>0, <1>5, <4>1
    <3> QED BY <2>1, <3>3
  <2>2. CASE w # h.published
    BY <1>1, <1>7, <1>9, <2>2
  <2> QED BY <2>1, <2>2
<1>10. books' \in [BookVersion -> BookRow]
  BY <1>1, <1>8, <1>9
<1>11. \A w \in BookVersion : books'[w].revision <= n
  <2>1. ASSUME NEW w \in BookVersion, w # v PROVE books'[w].revision <= n
    <3>1. books[w].revision \in Nat /\ h.revision \in Nat /\ books[w].revision <= h.revision
      BY <1>2 DEF CatalogTyped, BookRow, HeadSays
    <3> QED BY <1>0, <1>9, <2>1, <3>1
  <2> QED BY <1>0, <1>8, <2>1
<1>12. books[v].status = "DRAFT" /\ h.draft = v
  BY DEF Publishable
<1>13. h.exists /\ head'.exists = h.exists /\ head'.revision = n /\ head'.draft = NoVersion
       /\ head'.published = v
  BY <1>3 DEF HeadSays
<1> HIDE DEF V, T, S, D
<1> QED BY <1>4, <1>8, <1>9, <1>10, <1>11, <1>12, <1>13 DEF Changes

\* A change keeps what every version that was shown says.
LEMMA ChangesKeepShown ==
  ASSUME NEW e \in Editor, edit[e].ask.kind \in {"save", "publish"}, NEW h, Changes(e, h),
         NEW w \in BookVersion, books[w].status \in Shown
  PROVE  books'[w].status \in {books[w].status, "ARCHIVED"} /\ books'[w].content = books[w].content
<1>1. w # edit[e].ask.version
  BY DEF Changes, Shown
<1> QED BY <1>1 DEF Changes

\* The head of a change says what the versions have become.
LEMMA HeadsSayAgain ==
  ASSUME NEW A, EditAsks(A), CatalogTyped(A), NEW e \in Editor, NEW h, HeadSays(h), Changes(e, h)
  PROVE  HeadSays(head)'
<1> SUFFICES ASSUME NEW v, v = edit[e].ask.version PROVE HeadSays(head)'
  OBVIOUS
<1>0. v \in BookVersion /\ edit[e].ask.kind \in {"save", "publish"} /\ v # NoVersion
  BY CatalogAssumption DEF CatalogTyped, EditAsks, CatalogAssumption
<1>1. /\ head' \in HeadRow /\ head'.exists
      /\ \A w \in BookVersion : books'[w].revision <= head'.revision
  BY DEF Changes
<1>2. /\ \A w \in BookVersion : books[w].status = "DRAFT" <=> (h.draft # NoVersion /\ w = h.draft)
      /\ \A w \in BookVersion : books[w].status = "PUBLISHED" <=>
                                (h.published # NoVersion /\ w = h.published)
  BY DEF HeadSays, Having
<1>3. h.published = NoVersion \/ h.published \in BookVersion
  BY DEF HeadSays, HeadRow
<1>4. CASE edit[e].ask.kind = "save"
  <2>1. /\ head'.draft = v /\ head'.published = h.published
        /\ books[v].status \in {"ABSENT", "DRAFT"} /\ h.draft \in {NoVersion, v}
        /\ books'[v].status = "DRAFT" /\ \A w \in BookVersion \ {v} : books'[w] = books[w]
    BY <1>4 DEF Changes
  <2>2. {w \in BookVersion : books'[w].status = "DRAFT"} = {v}
    BY <1>0, <1>2, <2>1
  <2>3. {w \in BookVersion : books'[w].status = "PUBLISHED"} =
          IF h.published = NoVersion THEN {} ELSE {h.published}
    BY <1>0, <1>2, <1>3, <2>1
  <2> QED BY <1>0, <1>1, <2>1, <2>2, <2>3 DEF HeadSays, Having
<1>5. CASE edit[e].ask.kind = "publish"
  <2>1. /\ head'.draft = NoVersion /\ head'.published = v
        /\ books[v].status = "DRAFT" /\ h.draft = v
        /\ books'[v].status = "PUBLISHED"
        /\ \A w \in BookVersion \ {v} :
             IF w = h.published THEN books'[w].status = "ARCHIVED" ELSE books'[w] = books[w]
    BY <1>5 DEF Changes
  <2>2. {w \in BookVersion : books'[w].status = "DRAFT"} = {}
    BY <1>0, <1>2, <2>1
  <2>3. {w \in BookVersion : books'[w].status = "PUBLISHED"} = {v}
    BY <1>0, <1>2, <1>3, <2>1
  <2> QED BY <1>0, <1>1, <2>1, <2>2, <2>3 DEF HeadSays, Having
<1> QED BY <1>0, <1>4, <1>5

\* The operations fit the head of the change that left the last of them.
LEMMA OperationsFitAgain ==
  ASSUME NEW A, EditAsks(A), CatalogTyped(A), NEW e \in Editor, NEW h, HeadSays(h),
         OperationsFit(h), Changes(e, h), AsExpected(e, h), EditRecorded(e, h)
  PROVE  OperationsFit(head)'
<1> SUFFICES ASSUME NEW o \in operations'
             PROVE  /\ o.revision \in 1..head'.revision
                    /\ o.ask.kind = "publish" => /\ o.revision = o.ask.expected + 1
                                                 /\ books'[o.ask.version].status \in Shown
                    /\ o.ask.kind = "save" /\ o.revision = head'.revision =>
                         /\ head'.draft = o.ask.version
                         /\ books'[o.ask.version].content = o.ask.content
  BY DEF OperationsFit
<1>0. h.revision \in Nat /\ head'.revision = h.revision + 1 /\ edit[e].ask \in A
      /\ edit[e].ask.kind \in {"save", "publish"}
  BY DEF HeadSays, HeadRow, Changes, CatalogTyped, EditAsks
<1>1. CASE o \in operations
  <2>1. /\ o.revision \in 1..h.revision
        /\ o.ask.kind = "publish" => /\ o.revision = o.ask.expected + 1
                                     /\ books[o.ask.version].status \in Shown
    BY <1>1 DEF OperationsFit
  <2>2. o.ask.version \in BookVersion
    BY <1>1 DEF CatalogTyped, EditAsks
  <2>3. o.ask.kind = "publish" => books'[o.ask.version].status \in Shown
    BY <1>0, <2>1, <2>2, ChangesKeepShown DEF Shown
  <2>4. o.revision \in 1..head'.revision /\ o.revision # head'.revision
    BY <1>0, <2>1
  <2> QED BY <2>1, <2>3, <2>4
<1>2. CASE o = [ask |-> edit[e].ask, revision |-> h.revision + 1]
  <2>1. o.ask = edit[e].ask /\ o.revision = h.revision + 1 /\ h.revision = o.ask.expected
    BY <1>2 DEF AsExpected
  <2>2. o.revision \in 1..head'.revision
    BY <1>0, <2>1
  <2>3. o.ask.kind = "publish" => books'[o.ask.version].status \in Shown
    BY <2>1 DEF Changes, Shown
  <2>4. o.ask.kind = "save" => /\ head'.draft = o.ask.version
                               /\ books'[o.ask.version].content = o.ask.content
    BY <2>1 DEF Changes
  <2> QED BY <2>1, <2>2, <2>3, <2>4
<1> QED BY <1>1, <1>2 DEF EditRecorded

\* What is published is what was saved at the revision expected.
LEMMA StaysAsSeen ==
  ASSUME NEW A, EditAsks(A), CatalogTyped(A), NEW e \in Editor, NEW h, HeadSays(h),
         OperationsFit(h), Changes(e, h), AsExpected(e, h), EditRecorded(e, h), PublishedAsSeen
  PROVE  PublishedAsSeen'
<1> SUFFICES ASSUME NEW p \in operations', NEW s \in operations',
                    p.ask.kind = "publish", s.ask.kind = "save", s.revision = p.ask.expected
             PROVE  /\ s.ask.version = p.ask.version
                    /\ books'[p.ask.version].content = s.ask.content
  BY DEF PublishedAsSeen
<1> DEFINE o == [ask |-> edit[e].ask, revision |-> h.revision + 1]
<1>0. h.revision \in Nat /\ edit[e].ask.kind \in {"save", "publish"}
  BY DEF HeadSays, HeadRow, CatalogTyped, EditAsks
<1>1. /\ p \in operations \/ p = o
      /\ s \in operations \/ s = o
      /\ o.ask = edit[e].ask /\ o.revision = h.revision + 1 /\ o.ask.expected = h.revision
  BY DEF EditRecorded, AsExpected
<1> HIDE DEF o
<1>2. CASE p \in operations
  <2>1. p.revision \in 1..h.revision /\ p.revision = p.ask.expected + 1
        /\ books[p.ask.version].status \in Shown
    BY <1>2 DEF OperationsFit
  <2>2. p.ask.version \in BookVersion /\ p.ask.expected \in Nat
    BY <1>2 DEF CatalogTyped, EditAsks
  <2>3. s # o
    BY <1>0, <1>1, <2>1, <2>2
  <2>4. books'[p.ask.version].content = books[p.ask.version].content
    BY <1>0, <2>1, <2>2, ChangesKeepShown
  <2> QED BY <1>1, <1>2, <2>3, <2>4 DEF PublishedAsSeen
<1>3. CASE p = o
  <2>1. s \in operations /\ s.revision = h.revision
    BY <1>1, <1>3
  <2>2. h.draft = s.ask.version /\ books[s.ask.version].content = s.ask.content
    BY <2>1 DEF OperationsFit
  <2>3. h.draft = p.ask.version /\ books'[p.ask.version].content = books[p.ask.version].content
    BY <1>1, <1>3 DEF Changes
  <2> QED BY <2>2, <2>3
<1> QED BY <1>1, <1>2, <1>3

\* A commit, applied to a head that says what the versions are, keeps the invariant.
LEMMA CommitsKeepCatalog ==
  ASSUME NEW A, EditAsks(A), CatalogInv(A), NEW e \in Editor, NEW h, HeadSays(h),
         OperationsFit(h), AsExpected(e, h), OperationUnder(edit[e].ask.key) = {},
         CommitEdit(e, h), UNCHANGED moment
  PROVE  CatalogInv(A)' /\ Changes(e, h)
<1>0. CatalogTyped(A) /\ h.revision \in Nat /\ edit[e].ask \in A
  BY DEF CatalogInv, CatalogTyped, HeadSays, HeadRow
<1>1. Changes(e, h)
  BY <1>0, SavesChange, PublicationsChange DEF CommitEdit
<1>2. EditRecorded(e, h)
  BY DEF CommitEdit
<1>3. PICK answer \in {Outcome("done", h.revision + 1), Refused} : Tell(e, answer)
  BY DEF CommitEdit
<1>4. answer \in EditAnswers /\ answer.how \notin {"repeated"} 
      /\ (answer.how = "done" => answer.revision = h.revision + 1)
  BY <1>0, <1>3 DEF Outcome, Refused, EditAnswers
<1>5. /\ edit' \in [Editor -> [ask : A, at : EditSteps, occurred_at : 0..LastMoment]]
      /\ editTold' \in [Editor -> EditAnswers]
      /\ headLock' \in Editor \cup {NoEditor}
      /\ edit'[e].ask = edit[e].ask /\ edit'[e].at = "ended" /\ editTold'[e] = answer
      /\ \A r \in Editor \ {e} : edit'[r] = edit[r] /\ editTold'[r] = editTold[r]
      /\ \A r \in Editor \ {e} : headLock = r => headLock' = r
  BY <1>0, <1>3, <1>4, AnswersEndEdits
<1>6. operations' = operations \cup {[ask |-> edit[e].ask, revision |-> h.revision + 1]}
  BY <1>2 DEF EditRecorded
<1>7. CatalogTyped(A)'
  BY <1>0, <1>1, <1>5, <1>6 DEF CatalogTyped, Changes
<1>8. HeadSays(head)' /\ OperationsFit(head)'
  BY <1>0, <1>1, <1>2, HeadsSayAgain, OperationsFitAgain
<1>9. HeadFits'
  <2>1. head'.exists /\ edit[e].ask.version \in BookVersion
        /\ books'[edit[e].ask.version].revision = head'.revision
    BY <1>0, <1>1 DEF Changes, EditAsks
  <2> QED BY <1>8, <2>1 DEF HeadFits
<1>10. LockersHold'
  <2>1. head'.exists /\ edit'[e].at # "locked"
    BY <1>1, <1>5 DEF Changes
  <2> QED BY <1>5, <2>1 DEF LockersHold, CatalogInv
<1>11. PublishedAsSeen'
  BY <1>0, <1>1, <1>2, StaysAsSeen DEF CatalogInv
<1>12. RevisionsAreOperations'
  <2>1. \A o \in operations : o.revision \in 1..h.revision /\ o.ask.key # edit[e].ask.key
    BY DEF OperationsFit, OperationUnder
  <2>2. \A o, p \in operations : o.revision = p.revision \/ o.ask.key = p.ask.key => o = p
    BY DEF CatalogInv, RevisionsAreOperations
  <2>3. ASSUME NEW o \in operations', NEW p \in operations',
               o.revision = p.revision \/ o.ask.key = p.ask.key
        PROVE  o = p
    BY <1>0, <1>6, <2>1, <2>2, <2>3
  <2>4. ASSUME NEW r \in Editor, editTold'[r].how \in {"done", "repeated"}
        PROVE  [ask |-> edit'[r].ask, revision |-> editTold'[r].revision] \in operations'
    <3>1. CASE r = e
      <4>1. editTold'[r].revision = h.revision + 1 /\ edit'[r].ask = edit[e].ask
        BY <1>4, <1>5, <2>4, <3>1
      <4> QED BY <1>6, <4>1
    <3>2. CASE r # e
      <4>1. edit'[r] = edit[r] /\ editTold'[r] = editTold[r]
        BY <1>5, <3>2
      <4> QED BY <1>6, <2>4, <4>1 DEF CatalogInv, RevisionsAreOperations
    <3> QED BY <3>1, <3>2
  <2> QED BY <2>3, <2>4 DEF RevisionsAreOperations
<1> QED BY <1>1, <1>7, <1>9, <1>10, <1>11, <1>12 DEF CatalogInv

\* The head the first change makes up says what the first versions are.
LEMMA FoundedHeadsSay ==
  ASSUME NEW A, CatalogInv(A), ~head.exists, NEW e \in Editor
  PROVE  HeadSays(FoundedHead(e)) /\ OperationsFit(FoundedHead(e))
<1> DEFINE h == FoundedHead(e)
           rs == {0} \cup {books[v].revision : v \in BookVersion}
           ts == {books[v].updated_at : v \in BookVersion \ Having("ABSENT")}
<1> SUFFICES HeadSays(h) /\ OperationsFit(h)
  OBVIOUS
<1>0. books \in FirstBooks /\ operations = {} /\ edit[e].occurred_at \in 0..LastMoment
  BY DEF CatalogInv, HeadFits, CatalogTyped
<1>1. /\ h.revision = Latest(rs) /\ h.draft = OneOf(Having("DRAFT"))
      /\ h.published = OneOf(Having("PUBLISHED")) /\ h.exists
      /\ h.updated_at = IF Having("ABSENT") = BookVersion THEN edit[e].occurred_at ELSE Latest(ts)
      /\ (h \in HeadRow <=> /\ h.revision \in Nat /\ h.draft \in BookVersion \cup {NoVersion}
                            /\ h.published \in BookVersion \cup {NoVersion}
                            /\ h.updated_at \in 0..LastMoment)
  BY DEF FoundedHead, HeadRow
<1> HIDE DEF h, rs, ts
<1>2. Absent.status = "ABSENT" /\ Absent.revision = 0 /\ Absent.updated_at = 0
  BY DEF Absent
<1>3. OneOf({}) = NoVersion /\ \A w : OneOf({w}) = w
  BY DEF OneOf
<1>4. ASSUME NEW S, NEW n, n \in S, n \in Nat, \A m \in S : m \in Nat /\ m <= n PROVE Latest(S) = n
  <2>1. \E k \in S : \A m \in S : m <= k
    BY <1>4
  <2>2. Latest(S) \in S /\ \A m \in S : m <= Latest(S)
    BY <2>1 DEF Latest
  <2>3. Latest(S) \in Nat /\ Latest(S) <= n /\ n <= Latest(S)
    BY <1>4, <2>2
  <2> QED BY <1>4, <2>3
<1>5. CASE \A v \in BookVersion : books[v] = Absent
  <2>1. Having("ABSENT") = BookVersion /\ Having("DRAFT") = {} /\ Having("PUBLISHED") = {}
    BY <1>2, <1>5 DEF Having
  <2>2. 0 \in rs /\ \A m \in rs : m \in Nat /\ m <= 0
    BY <1>2, <1>5 DEF rs
  <2>3. Latest(rs) = 0
    BY <1>4, <2>2
  <2>4. h.revision = 0 /\ h.draft = NoVersion /\ h.published = NoVersion /\ h \in HeadRow
    BY <1>0, <1>1, <1>3, <2>1, <2>3
  <2>5. \A v \in BookVersion : books[v].revision <= h.revision
    BY <1>2, <1>5, <2>4
  <2>6. HeadSays(h)
    BY <1>1, <2>1, <2>4, <2>5 DEF HeadSays
  <2>7. OperationsFit(h)
    BY <1>0 DEF OperationsFit
  <2> QED BY <2>6, <2>7
<1>6. ASSUME NEW w \in BookVersion, books[w].status = "PUBLISHED", books[w].revision = 1,
             books[w].updated_at = 0, \A v \in BookVersion \ {w} : books[v] = Absent
      PROVE  HeadSays(h) /\ OperationsFit(h)
  <2>1. Having("ABSENT") = BookVersion \ {w} /\ Having("DRAFT") = {} /\ Having("PUBLISHED") = {w}
    BY <1>2, <1>6 DEF Having
  <2>2. 1 \in rs /\ \A m \in rs : m \in Nat /\ m <= 1
    BY <1>2, <1>6 DEF rs
  <2>3. Latest(rs) = 1
    BY <1>4, <2>2
  <2>4. 0 \in ts /\ \A m \in ts : m \in Nat /\ m <= 0
    BY <1>6, <2>1 DEF ts
  <2>5. Latest(ts) = 0
    BY <1>4, <2>4
  <2>6. 0 \in 0..LastMoment /\ w # NoVersion /\ Having("ABSENT") # BookVersion
    BY <2>1, CatalogAssumption DEF CatalogAssumption
  <2>7. h.revision = 1 /\ h.draft = NoVersion /\ h.published = w /\ h.updated_at = 0
    BY <1>1, <1>3, <2>1, <2>3, <2>5, <2>6
  <2>9. h \in HeadRow
    BY <1>1, <1>6, <2>6, <2>7
  <2>8. \A v \in BookVersion : books[v].revision <= h.revision
    BY <1>2, <1>6, <2>7
  <2>10. HeadSays(h)
    BY <1>1, <2>1, <2>6, <2>7, <2>8, <2>9 DEF HeadSays
  <2>11. OperationsFit(h)
    BY <1>0 DEF OperationsFit
  <2> QED BY <2>10, <2>11
<1> QED BY <1>0, <1>5, <1>6, FirstBooksTyped

\* Every step of the requests and the clock keeps the invariant; a step that changes a
\* version is a change of the head there is, or of the one made up for it.
LEMMA CatalogSteps ==
  ASSUME NEW A, EditAsks(A), CatalogInv(A), [CatalogNext]_catalogVars
  PROVE  /\ CatalogInv(A)'
         /\ \/ UNCHANGED books
            \/ \E e \in Editor, h \in HeadRow : HeadSays(h) /\ Changes(e, h)
<1>1. CASE UNCHANGED catalogVars
  BY <1>1 DEF catalogVars, CatalogInv, CatalogTyped, HeadFits, HeadSays, OperationsFit, LockersHold,
     PublishedAsSeen, RevisionsAreOperations, Having
<1>2. CASE MomentPasses
  <2>1. moment' \in 0..LastMoment /\ UNCHANGED <<books, head, operations, headLock, edit, editTold>>
    BY <1>2, CatalogAssumption DEF MomentPasses, CatalogInv, CatalogTyped, CatalogAssumption
  <2> QED BY <2>1 DEF CatalogInv, CatalogTyped, HeadFits, HeadSays, OperationsFit, LockersHold,
          PublishedAsSeen, RevisionsAreOperations, Having
<1>3. ASSUME NEW e \in Editor, LookUpEdit(e) \/ LockHead(e) \/ EditDrops(e)
      PROVE  CatalogInv(A)' /\ UNCHANGED books
  BY <1>3, LookUpsKeepCatalog DEF LookUpEdit, LockHead, EditDrops
<1>4. ASSUME NEW e \in Editor, Apply(e) \/ Found(e),
             UNCHANGED <<books, head, operations>>
      PROVE  CatalogInv(A)' \/ \E h : CommitEdit(e, h)
  BY <1>4, RefusedEdits, RepeatedEdits DEF Apply, Found
<1>5. ASSUME NEW e \in Editor, NEW h, h = head \/ h = FoundedHead(e), HeadSays(h), OperationsFit(h),
             MayApply(e, h), OperationUnder(edit[e].ask.key) = {}, CommitEdit(e, h), UNCHANGED moment
      PROVE  CatalogInv(A)' /\ h \in HeadRow /\ Changes(e, h)
  BY <1>5, CommitsKeepCatalog DEF MayApply, HeadSays
<1>6. ASSUME NEW e \in Editor, Apply(e)
      PROVE  CatalogInv(A)' /\ (UNCHANGED books \/ \E h \in HeadRow : HeadSays(h) /\ Changes(e, h))
  <2>1. head.exists
    BY <1>6 DEF Apply, CatalogInv, LockersHold
  <2>2. HeadSays(head) /\ OperationsFit(head)
    BY <2>1 DEF CatalogInv, HeadFits
  <2> QED BY <1>5, <1>6, <2>2, RefusedEdits, RepeatedEdits DEF Apply
<1>7. ASSUME NEW e \in Editor, Found(e)
      PROVE  CatalogInv(A)' /\ (UNCHANGED books \/ \E h \in HeadRow : HeadSays(h) /\ Changes(e, h))
  <2>1. CASE head.exists
    BY <1>7, <2>1, RefusedEdits, RepeatedEdits DEF Found
  <2>2. CASE ~head.exists
    <3>1. HeadSays(FoundedHead(e)) /\ OperationsFit(FoundedHead(e))
      BY <2>2, FoundedHeadsSay
    <3>2. OperationUnder(edit[e].ask.key) = {}
      BY <2>2 DEF CatalogInv, HeadFits, OperationUnder
    <3> QED BY <1>5, <1>7, <2>2, <3>1, <3>2, RefusedEdits DEF Found
  <2> QED BY <2>1, <2>2
<1> QED BY <1>1, <1>2, <1>3, <1>6, <1>7 DEF CatalogNext

\* What the invariant says of the versions is what the run checks.
LEMMA CatalogIsSound ==
  ASSUME NEW A, CatalogInv(A) PROVE RunbooksAreSound
<1> DEFINE rs == {books[v].revision : v \in BookVersion}
<1>1. ASSUME head.exists PROVE HeadIsTrue
  <2>1. HeadSays(head) /\ \E v \in BookVersion : books[v].revision = head.revision
    BY <1>1 DEF CatalogInv, HeadFits
  <2>2. head.revision \in rs /\ head.revision \in Nat /\ \A m \in rs : m <= head.revision
    BY <2>1 DEF HeadSays, HeadRow
  <2>3. \A m \in rs : m \in Nat
    BY DEF CatalogInv, CatalogTyped, BookRow
  <2>4. Latest(rs) = head.revision
    BY <2>2, <2>3 DEF Latest
  <2> QED BY <2>1, <2>4 DEF HeadIsTrue, HeadSays
<1> QED BY <1>1 DEF RunbooksAreSound, CatalogInv, HeadIsTrue

\* The head row says what the versions are, what is published is what the editor expected to
\* publish, and every revision is one operation, told to whoever asked for it: whatever the
\* requests, repeats and interleavings (runbook_admin_store.py:134-197).
THEOREM RunbooksAlwaysSound ==
  ASSUME NEW A, EditAsks(A)
  PROVE  CatalogStart(A) /\ [][CatalogNext]_catalogVars => []RunbooksAreSound
<1>1. CatalogStart(A) => CatalogInv(A)
  BY CatalogBegins
<1>2. CatalogInv(A) /\ [CatalogNext]_catalogVars => CatalogInv(A)'
  BY CatalogSteps
<1>3. CatalogInv(A) => RunbooksAreSound
  BY CatalogIsSound
<1> QED BY <1>1, <1>2, <1>3, PTL

\* A step keeps what was shown, and leaves one published version where there was one.
LEMMA ShownVersionsStay ==
  ASSUME NEW A, EditAsks(A), CatalogInv(A), [CatalogNext]_catalogVars
  PROVE  /\ \A v \in BookVersion :
              books[v].status \in {"PUBLISHED", "ARCHIVED"} =>
                /\ books'[v].content = books[v].content
                /\ books'[v].status \in {books[v].status, "ARCHIVED"}
         /\ Having("PUBLISHED") # {} => Cardinality(Having("PUBLISHED")') = 1
<1>0. CatalogInv(A)'
  BY CatalogSteps
<1>1. CASE UNCHANGED books
  <2>1. Having("PUBLISHED")' = Having("PUBLISHED")
    BY <1>1 DEF Having
  <2>2. ASSUME NEW w \in Having("PUBLISHED") PROVE Cardinality(Having("PUBLISHED")) = 1
    <3>1. Having("PUBLISHED") = {w}
      <4>1. CASE head.exists
        BY <2>2, <4>1 DEF CatalogInv, HeadFits, HeadSays
      <4>2. CASE ~head.exists
        BY <2>2, <4>2, FirstBooksTyped DEF CatalogInv, HeadFits, Having, Absent
      <4> QED BY <4>1, <4>2
    <3> QED BY <3>1, FS_Singleton
  <2> QED BY <1>1, <2>1, <2>2
<1>2. ASSUME NEW e \in Editor, NEW h \in HeadRow, HeadSays(h), Changes(e, h)
      PROVE  /\ \A v \in BookVersion :
                  books[v].status \in {"PUBLISHED", "ARCHIVED"} =>
                    /\ books'[v].content = books[v].content
                    /\ books'[v].status \in {books[v].status, "ARCHIVED"}
             /\ Having("PUBLISHED") # {} => Cardinality(Having("PUBLISHED")') = 1
  <2>1. edit[e].ask.kind \in {"save", "publish"}
    BY DEF CatalogInv, CatalogTyped, EditAsks
  <2>2. HeadSays(head)'
    BY <1>2, HeadsSayAgain DEF CatalogInv
  <2>3. ASSUME Having("PUBLISHED") # {} PROVE head'.published # NoVersion
    <3>1. h.published # NoVersion
      BY <1>2, <2>3 DEF HeadSays
    <3>2. edit[e].ask.version # NoVersion
      BY CatalogAssumption DEF CatalogInv, CatalogTyped, EditAsks, CatalogAssumption
    <3> QED BY <1>2, <2>1, <3>1, <3>2 DEF Changes
  <2>4. ASSUME Having("PUBLISHED") # {} PROVE Having("PUBLISHED")' = {head'.published}
    BY <2>2, <2>3, <2>4 DEF HeadSays
  <2>5. Having("PUBLISHED") # {} => Cardinality(Having("PUBLISHED")') = 1
    BY <2>4, FS_Singleton
  <2>6. \A v \in BookVersion :
          books[v].status \in {"PUBLISHED", "ARCHIVED"} =>
            /\ books'[v].content = books[v].content
            /\ books'[v].status \in {books[v].status, "ARCHIVED"}
    BY <1>2, <2>1, ChangesKeepShown DEF Shown
  <2> QED BY <2>5, <2>6
<1> QED BY <1>1, <1>2, CatalogSteps

\* What was published stays as it is, and once there is a published version there is exactly
\* one at every moment (runbook_admin_store.py:150-186).
THEOREM PublishedRunbooksStay ==
  ASSUME NEW A, EditAsks(A)
  PROVE  CatalogStart(A) /\ [][CatalogNext]_catalogVars => PublishedIsKept
<1> DEFINE Kept ==
      /\ \A v \in BookVersion :
           books[v].status \in {"PUBLISHED", "ARCHIVED"} =>
             /\ books'[v].content = books[v].content
             /\ books'[v].status \in {books[v].status, "ARCHIVED"}
      /\ Having("PUBLISHED") # {} => Cardinality(Having("PUBLISHED")') = 1
<1>1. CatalogStart(A) => CatalogInv(A)
  BY CatalogBegins
<1>2. CatalogInv(A) /\ [CatalogNext]_catalogVars => CatalogInv(A)' /\ [Kept]_catalogVars
  BY CatalogSteps, ShownVersionsStay
<1>3. PublishedIsKept <=> [][Kept]_catalogVars
  BY DEF PublishedIsKept
<1> HIDE DEF Kept
<1> QED BY <1>1, <1>2, <1>3, PTL

----------------------------------------------------------------------------
(* Grants.  There is no head row, so a request may write without a lock; what *)
(* holds then is only what the unique indexes keep.                           *)

AdminSteps == {"idle", "selecting", "waiting", "counting", "writing", "ended"}
AdminAnswers == [how : {"none", "done", "repeated", "refused"}, version : Nat]
ViewSteps == {"idle", "counted", "found", "seen", "failed"}

GrantRow == [version : Nat, tags : Permission, revoked : BOOLEAN]

GrantTyped(A) ==
  /\ grants \in Seq(GrantRow)
  /\ grantLock \in Seq(Admin \cup {NoAdmin}) /\ Len(grantLock) = Len(grants)
  /\ changes \in SUBSET [ask : A, version : Nat, grant : Nat]
  /\ granting \in [Admin -> [ask : A, at : AdminSteps, held : Nat, version : Nat]]
  /\ verdict \in [Admin -> AdminAnswers]
  /\ viewing \in [Viewer -> [at : ViewSteps, version : Nat, grant : Nat,
                             tags : Permission \cup {{}}]]

AtMostOneActive == \A g, h \in ActiveGrants : g = h

\* Some grant has the highest version.
TopVersion ==
  grants = <<>> \/ \E g \in DOMAIN grants : \A h \in DOMAIN grants : grants[h].version <= grants[g].version

\* A request that found an active grant holds its row until it ends.
HoldersHold ==
  \A m \in Admin : granting[m].at \in {"counting", "writing"} /\ granting[m].held # NoGrant =>
    granting[m].held \in ActiveGrants /\ grantLock[granting[m].held] = m

\* What a request has made sure of by the time it writes; with the lock it still holds.
WriterKnows(m) ==
  /\ granting[m].ask.kind = "revoke" => granting[m].held # NoGrant
  /\ granting[m].version = granting[m].ask.expected + 1
  /\ granting[m].held # NoGrant => /\ HighestVersion = granting[m].ask.expected
                                   /\ ChangeUnder(granting[m].ask.key) = {}
WritersKnow == \A m \in Admin : granting[m].at = "writing" => WriterKnows(m)

\* The change a grant was made by.
MadeBy(c, g, version, tags) ==
  c.ask.kind = "set" /\ c.ask.tags = tags /\ c.version = version /\ c.grant = g

ActiveAreMade ==
  \A g \in ActiveGrants : \E c \in changes : MadeBy(c, g, grants[g].version, grants[g].tags)

ViewersFound ==
  \A x \in Viewer : viewing[x].at = "found" =>
    /\ viewing[x].grant \in DOMAIN grants
    /\ \E c \in changes :
         MadeBy(c, viewing[x].grant, viewing[x].version, grants[viewing[x].grant].tags)

GrantInv(A) ==
  /\ GrantTyped(A) /\ AtMostOneActive /\ TopVersion /\ HoldersHold /\ WritersKnow
  /\ ActiveAreMade /\ ViewersFound /\ ViewsAreTrue /\ ChangesAreTold

\* The first state, whatever requests of A are made.
GrantsStart(A) ==
  GrantsInit /\ granting \in [Admin -> [ask : A, at : {"idle"}, held : {0}, version : {0}]]
----------------------------------------------------------------------------
LEMMA GrantsBegin ==
  ASSUME NEW A, GrantsStart(A) PROVE GrantInv(A)
<1>1. grants = <<>> /\ changes = {} /\ ActiveGrants = {} /\ grantLock = <<>>
  BY DEF GrantsStart, GrantsInit, ActiveGrants
<1>2. verdict \in [Admin -> AdminAnswers] /\ \A m \in Admin : verdict[m].how = "none"
  BY DEF GrantsStart, GrantsInit, AdminAnswers
<1>3. granting \in [Admin -> [ask : A, at : AdminSteps, held : Nat, version : Nat]]
      /\ \A m \in Admin : granting[m].at = "idle"
  BY DEF GrantsStart, GrantsInit, AdminSteps
<1>4. viewing \in [Viewer -> [at : ViewSteps, version : Nat, grant : Nat,
                              tags : Permission \cup {{}}]]
      /\ \A x \in Viewer : viewing[x].at = "idle"
  BY DEF GrantsStart, GrantsInit, ViewSteps, NoGrant
<1>5. GrantTyped(A)
  BY <1>1, <1>2, <1>3, <1>4 DEF GrantTyped
<1>6. AtMostOneActive /\ TopVersion /\ HoldersHold /\ WritersKnow /\ ActiveAreMade
  BY <1>1, <1>3 DEF AtMostOneActive, TopVersion, HoldersHold, WritersKnow, ActiveAreMade
<1>7. ViewersFound /\ ViewsAreTrue /\ ChangesAreTold
  BY <1>1, <1>2, <1>4 DEF ViewersFound, ViewsAreTrue, ChangesAreTold
<1> QED BY <1>5, <1>6, <1>7 DEF GrantInv

\* The highest version is one of them, once there is a grant.
LEMMA HighestIsThere ==
  ASSUME NEW A, GrantTyped(A), TopVersion
  PROVE  /\ HighestVersion \in Nat
         /\ \A g \in DOMAIN grants : grants[g].version <= HighestVersion
         /\ grants # <<>> => \E g \in DOMAIN grants : grants[g].version = HighestVersion
<1>1. CASE grants = <<>>
  BY <1>1 DEF HighestVersion
<1>2. CASE grants # <<>>
  <2>1. \E n \in {grants[g].version : g \in DOMAIN grants} :
          \A g \in DOMAIN grants : grants[g].version <= n
    BY <1>2 DEF TopVersion
  <2>3. /\ HighestVersion \in {grants[g].version : g \in DOMAIN grants}
        /\ \A g \in DOMAIN grants : grants[g].version <= HighestVersion
    BY <1>2, <2>1 DEF HighestVersion
  <2>2. \A g \in DOMAIN grants : grants[g] \in GrantRow
    BY DEF GrantTyped
  <2>4. \A g \in DOMAIN grants : grants[g].version \in Nat
    BY <2>2 DEF GrantRow
  <2> QED BY <2>3, <2>4
<1> QED BY <1>1, <1>2

\* A step of one request that writes no row: it may take a grant or release it.
AdminMoves(A, m) ==
  /\ UNCHANGED <<grants, changes, viewing>>
  /\ granting' \in [Admin -> [ask : A, at : AdminSteps, held : Nat, version : Nat]]
  /\ verdict' \in [Admin -> AdminAnswers]
  /\ grantLock' \in Seq(Admin \cup {NoAdmin}) /\ Len(grantLock') = Len(grantLock)
  /\ granting'[m].ask = granting[m].ask
  /\ \A r \in Admin \ {m} : granting'[r] = granting[r] /\ verdict'[r] = verdict[r]
  /\ \A r \in Admin \ {m}, g \in DOMAIN grants : grantLock[g] = r => grantLock'[g] = r

LEMMA AdminMovesKeep ==
  ASSUME NEW A, GrantInv(A), NEW m \in Admin, AdminMoves(A, m),
         granting'[m].at \in {"counting", "writing"} /\ granting'[m].held # NoGrant =>
           granting'[m].held \in ActiveGrants /\ grantLock'[granting'[m].held] = m,
         granting'[m].at = "writing" => WriterKnows(m)',
         verdict'[m].how \in {"done", "repeated"} =>
           \E c \in changes : c.ask = granting[m].ask /\ c.version = verdict'[m].version
  PROVE  GrantInv(A)'
<1>0. /\ UNCHANGED <<grants, changes, viewing>>
      /\ granting'[m].ask = granting[m].ask
      /\ \A r \in Admin \ {m} : granting'[r] = granting[r] /\ verdict'[r] = verdict[r]
      /\ \A r \in Admin \ {m}, g \in DOMAIN grants : grantLock[g] = r => grantLock'[g] = r
      /\ ActiveGrants' = ActiveGrants /\ HighestVersion' = HighestVersion
      /\ ActiveGrants \subseteq DOMAIN grants
  BY DEF AdminMoves, ActiveGrants, HighestVersion
<1>1. GrantTyped(A)'
  BY DEF GrantInv, GrantTyped, AdminMoves
<1>2. AtMostOneActive' /\ TopVersion' /\ ActiveAreMade' /\ ViewersFound' /\ ViewsAreTrue'
  BY <1>0 DEF GrantInv, AtMostOneActive, TopVersion, ActiveAreMade, ViewersFound, ViewsAreTrue
<1>3. HoldersHold'
  <2>1. ASSUME NEW r \in Admin, r # m, granting'[r].at \in {"counting", "writing"},
               granting'[r].held # NoGrant
        PROVE  granting'[r].held \in ActiveGrants /\ grantLock'[granting'[r].held] = r
    <3>1. granting'[r] = granting[r]
      BY <1>0, <2>1
    <3>2. granting[r].held \in ActiveGrants /\ grantLock[granting[r].held] = r
      BY <2>1, <3>1 DEF GrantInv, HoldersHold
    <3> QED BY <1>0, <2>1, <3>1, <3>2
  <2> QED BY <1>0, <2>1 DEF HoldersHold
<1>4. WritersKnow'
  <2>1. ASSUME NEW r \in Admin, r # m, granting'[r].at = "writing" PROVE WriterKnows(r)'
    <3>1. granting'[r] = granting[r] /\ WriterKnows(r)
      BY <1>0, <2>1 DEF GrantInv, WritersKnow
    <3> QED BY <1>0, <3>1 DEF WriterKnows, ChangeUnder
  <2> QED BY <2>1 DEF WritersKnow
<1>5. ChangesAreTold'
  <2>1. ASSUME NEW r \in Admin, verdict'[r].how \in {"done", "repeated"}
        PROVE  \E c \in changes : c.ask = granting'[r].ask /\ c.version = verdict'[r].version
    <3>1. CASE r = m
      BY <1>0, <2>1, <3>1
    <3>2. CASE r # m
      BY <1>0, <2>1, <3>2 DEF GrantInv, ChangesAreTold
    <3> QED BY <3>1, <3>2
  <2> QED BY <1>0, <2>1 DEF GrantInv, ChangesAreTold
<1> QED BY <1>1, <1>2, <1>3, <1>4, <1>5 DEF GrantInv

\* The members of a sequence.
LEMMA InSequence ==
  ASSUME NEW S, NEW s \in Seq(S)
  PROVE  \A h \in DOMAIN s : s[h] \in S /\ h \in Nat
OBVIOUS

\* A function on the first numbers is a sequence.
LEMMA FirstNumbers ==
  ASSUME NEW S, NEW n \in Nat, NEW f \in [1..n -> S]
  PROVE  f \in Seq(S) /\ Len(f) = n /\ DOMAIN f = 1..n
OBVIOUS

\* Releasing the rows of one request leaves those of the others.
LEMMA ReleasesOwn ==
  ASSUME NEW A, GrantTyped(A), NEW m \in Admin
  PROVE  /\ Unlocked(m) \in Seq(Admin \cup {NoAdmin}) /\ Len(Unlocked(m)) = Len(grants)
         /\ \A r \in Admin \ {m}, g \in DOMAIN grants : grantLock[g] = r => Unlocked(m)[g] = r
<1> DEFINE n == Len(grants)
           S == Admin \cup {NoAdmin}
<1>1. n \in Nat /\ DOMAIN grants = 1..n /\ DOMAIN grantLock = 1..n /\ \A g \in 1..n : grantLock[g] \in S
  BY DEF GrantTyped
<1>2. Unlocked(m) \in [1..n -> S]
      /\ \A g \in 1..n : Unlocked(m)[g] = IF grantLock[g] = m THEN NoAdmin ELSE grantLock[g]
  BY <1>1 DEF Unlocked
<1>3. Unlocked(m) \in Seq(S) /\ Len(Unlocked(m)) = n
  BY <1>1, <1>2, FirstNumbers
<1> QED BY <1>1, <1>2, <1>3

\* An answer ends the request and releases its row.
LEMMA AnswersEndChanges ==
  ASSUME NEW A, GrantInv(A), NEW m \in Admin, NEW answer \in AdminAnswers, AnswerAdmin(m, answer),
         UNCHANGED <<grants, changes, viewing>>,
         answer.how \in {"done", "repeated"} =>
           \E c \in changes : c.ask = granting[m].ask /\ c.version = answer.version
  PROVE  GrantInv(A)'
<1>1. GrantTyped(A) /\ grantLock' = Unlocked(m)
  BY DEF GrantInv, AnswerAdmin, Unlocked
<1>2. /\ granting' \in [Admin -> [ask : A, at : AdminSteps, held : Nat, version : Nat]]
      /\ verdict' \in [Admin -> AdminAnswers]
      /\ granting'[m].ask = granting[m].ask /\ granting'[m].at = "ended" /\ verdict'[m] = answer
      /\ \A r \in Admin \ {m} : granting'[r] = granting[r] /\ verdict'[r] = verdict[r]
  BY <1>1 DEF AnswerAdmin, GrantTyped, AdminSteps
<1>3. /\ grantLock' \in Seq(Admin \cup {NoAdmin}) /\ Len(grantLock') = Len(grantLock)
      /\ \A r \in Admin \ {m}, g \in DOMAIN grants : grantLock[g] = r => grantLock'[g] = r
  <2>1. Len(grantLock) = Len(grants)
    BY <1>1 DEF GrantTyped
  <2> QED BY <1>1, <2>1, ReleasesOwn
<1>4. AdminMoves(A, m)
  BY <1>2, <1>3 DEF AdminMoves
<1> QED BY <1>2, <1>4, AdminMovesKeep

LEMMA RefusedChanges ==
  ASSUME NEW A, GrantInv(A), NEW m \in Admin, RefuseChange(m), UNCHANGED <<grants, changes, viewing>>
  PROVE  GrantInv(A)'
<1> DEFINE answer == [how |-> "refused", version |-> 0]
<1>1. answer \in AdminAnswers /\ answer.how = "refused"
  BY DEF AdminAnswers
<1>2. AnswerAdmin(m, answer)
  BY DEF RefuseChange
<1> HIDE DEF answer
<1> QED BY <1>1, <1>2, AnswersEndChanges

LEMMA RepeatedChanges ==
  ASSUME NEW A, GrantInv(A), NEW m \in Admin, AnswerAgain(m), UNCHANGED <<grants, changes, viewing>>
  PROVE  GrantInv(A)'
<1>1. PICK c \in ChangeUnder(granting[m].ask.key) :
        AnswerAdmin(m, IF c.ask = granting[m].ask THEN [how |-> "repeated", version |-> c.version]
                       ELSE [how |-> "refused", version |-> 0])
  BY DEF AnswerAgain
<1>2. CASE c.ask # granting[m].ask
  BY <1>1, <1>2, RefusedChanges DEF RefuseChange
<1>3. CASE c.ask = granting[m].ask
  <2>1. c \in changes /\ c.version \in Nat
    BY <1>1 DEF GrantInv, GrantTyped, ChangeUnder
  <2> DEFINE answer == [how |-> "repeated", version |-> c.version]
  <2>2. answer \in AdminAnswers /\ answer.version = c.version
    BY <2>1 DEF AdminAnswers
  <2>3. AnswerAdmin(m, answer)
    BY <1>1, <1>3
  <2> HIDE DEF answer
  <2> QED BY <1>3, <2>1, <2>2, <2>3, AnswersEndChanges
<1> QED BY <1>2, <1>3

\* What looking for a grant makes of the record of a request.
TakesGrant(m, p, n) == granting' = [granting EXCEPT ![m].at = p, ![m].held = n]

LEMMA RequestsHold ==
  ASSUME NEW A, GrantTyped(A), NEW m \in Admin, NEW p \in AdminSteps, NEW n \in Nat, TakesGrant(m, p, n)
  PROVE  /\ granting' \in [Admin -> [ask : A, at : AdminSteps, held : Nat, version : Nat]]
         /\ granting'[m].ask = granting[m].ask /\ granting'[m].at = p
         /\ granting'[m].held = n /\ granting'[m].version = granting[m].version
         /\ \A r \in Admin \ {m} : granting'[r] = granting[r]
<1> DEFINE R == [ask : A, at : AdminSteps, held : Nat, version : Nat]
<1>0. granting \in [Admin -> R]
  BY DEF GrantTyped
<1>1. granting[m] \in [ask : A, at : AdminSteps, held : Nat, version : Nat]
  BY <1>0
<1>2. granting'[m] = [ask |-> granting[m].ask, at |-> p, held |-> n, version |-> granting[m].version]
  <2>1. granting'[m] = [granting[m] EXCEPT !.at = p, !.held = n]
    BY <1>0 DEF TakesGrant
  <2> QED BY <1>1, <2>1
<1>3. granting'[m] \in R
  BY <1>1, <1>2
<1>4. DOMAIN granting' = Admin /\ \A r \in Admin \ {m} : granting'[r] = granting[r]
  BY <1>0 DEF TakesGrant
<1>5. granting' = [r \in Admin |-> granting'[r]]
  BY <1>0 DEF TakesGrant
<1>6. granting' \in [Admin -> R]
  <2> HIDE DEF R
  <2> QED BY <1>0, <1>3, <1>4, <1>5
<1> QED BY <1>2, <1>4, <1>6

\* What counting the versions makes of it.
CountsOn(m, p, n) == granting' = [granting EXCEPT ![m].at = p, ![m].version = n]

LEMMA RequestsCount ==
  ASSUME NEW A, GrantTyped(A), NEW m \in Admin, NEW p \in AdminSteps, NEW n \in Nat, CountsOn(m, p, n)
  PROVE  /\ granting' \in [Admin -> [ask : A, at : AdminSteps, held : Nat, version : Nat]]
         /\ granting'[m].ask = granting[m].ask /\ granting'[m].at = p
         /\ granting'[m].version = n /\ granting'[m].held = granting[m].held
         /\ \A r \in Admin \ {m} : granting'[r] = granting[r]
<1> DEFINE R == [ask : A, at : AdminSteps, held : Nat, version : Nat]
<1>0. granting \in [Admin -> R]
  BY DEF GrantTyped
<1>1. granting[m] \in [ask : A, at : AdminSteps, held : Nat, version : Nat]
  BY <1>0
<1>2. granting'[m] = [ask |-> granting[m].ask, at |-> p, held |-> granting[m].held, version |-> n]
  <2>1. granting'[m] = [granting[m] EXCEPT !.at = p, !.version = n]
    BY <1>0 DEF CountsOn
  <2> QED BY <1>1, <2>1
<1>3. granting'[m] \in R
  BY <1>1, <1>2
<1>4. DOMAIN granting' = Admin /\ \A r \in Admin \ {m} : granting'[r] = granting[r]
  BY <1>0 DEF CountsOn
<1>5. granting' = [r \in Admin |-> granting'[r]]
  BY <1>0 DEF CountsOn
<1>6. granting' \in [Admin -> R]
  <2> HIDE DEF R
  <2> QED BY <1>0, <1>3, <1>4, <1>5
<1> QED BY <1>2, <1>4, <1>6

\* A request that found a free row holds it; one that found none goes on without.
LEMMA HeldGrants ==
  ASSUME NEW A, GrantInv(A), NEW m \in Admin, NEW g, g = NoGrant \/ g \in ActiveGrants,
         g # NoGrant => grantLock[g] = NoAdmin, HoldsGrant(m, g),
         UNCHANGED <<grants, changes, verdict, viewing>>
  PROVE  GrantInv(A)'
<1> DEFINE S == Admin \cup {NoAdmin}
<1>0. /\ GrantTyped(A) /\ DOMAIN grants = DOMAIN grantLock /\ NoAdmin \notin Admin
      /\ Len(grants) \in Nat /\ DOMAIN grants = 1..Len(grants) /\ Len(grantLock) = Len(grants)
      /\ grantLock \in Seq(S) /\ grantLock \in [1..Len(grants) -> S]
  BY GrantAssumption DEF GrantInv, GrantTyped, GrantAssumption
<1>1. g \in Nat /\ (g # NoGrant => g \in DOMAIN grants)
  BY <1>0 DEF ActiveGrants, NoGrant
<1>2. /\ granting' = [granting EXCEPT ![m].at = "counting", ![m].held = g]
      /\ grantLock' = IF g = NoGrant THEN grantLock ELSE [grantLock EXCEPT ![g] = m]
  BY DEF HoldsGrant
<1>3. TakesGrant(m, "counting", g) /\ "counting" \in AdminSteps
  BY <1>2 DEF TakesGrant, AdminSteps
<1>4. /\ granting' \in [Admin -> [ask : A, at : AdminSteps, held : Nat, version : Nat]]
      /\ granting'[m].ask = granting[m].ask /\ granting'[m].at = "counting" /\ granting'[m].held = g
      /\ \A r \in Admin \ {m} : granting'[r] = granting[r]
  BY <1>0, <1>1, <1>3, RequestsHold
<1>5. /\ grantLock' \in [1..Len(grants) -> S]
      /\ \A r \in Admin \ {m}, h \in DOMAIN grants : grantLock[h] = r => grantLock'[h] = r
      /\ g # NoGrant => grantLock'[g] = m
  BY <1>0, <1>1, <1>2
<1>6. grantLock' \in Seq(S) /\ Len(grantLock') = Len(grantLock)
  BY <1>0, <1>5, FirstNumbers
<1>7. AdminMoves(A, m)
  <2>1. verdict' \in [Admin -> AdminAnswers] /\ \A r \in Admin \ {m} : verdict'[r] = verdict[r]
    BY <1>0 DEF GrantTyped
  <2> QED BY <1>3, <1>4, <1>5, <1>6, <2>1 DEF AdminMoves
<1>8. verdict'[m].how \in {"done", "repeated"} =>
        \E c \in changes : c.ask = granting[m].ask /\ c.version = verdict'[m].version
  BY DEF GrantInv, ChangesAreTold
<1> QED BY <1>1, <1>4, <1>5, <1>7, <1>8, AdminMovesKeep

\* A request that moves on without taking or releasing a row.
LEMMA MovesWithoutRows ==
  ASSUME NEW A, GrantInv(A), NEW m \in Admin,
         UNCHANGED <<grants, changes, verdict, viewing, grantLock>>,
         granting' \in [Admin -> [ask : A, at : AdminSteps, held : Nat, version : Nat]],
         granting'[m].ask = granting[m].ask, \A r \in Admin \ {m} : granting'[r] = granting[r],
         \/ granting'[m].at \in {"selecting", "waiting"}
         \/ /\ granting[m].at = "counting" /\ granting'[m].at = "writing"
            /\ granting'[m].held = granting[m].held /\ WriterKnows(m)'
  PROVE  GrantInv(A)'
<1>1. AdminMoves(A, m)
  BY DEF GrantInv, GrantTyped, AdminMoves
<1>2. verdict'[m].how \in {"done", "repeated"} =>
        \E c \in changes : c.ask = granting[m].ask /\ c.version = verdict'[m].version
  BY DEF GrantInv, ChangesAreTold
<1>3. granting'[m].at \in {"counting", "writing"} /\ granting'[m].held # NoGrant =>
        granting'[m].held \in ActiveGrants /\ grantLock'[granting'[m].held] = m
  BY DEF GrantInv, HoldersHold
<1> QED BY <1>1, <1>2, <1>3, AdminMovesKeep

LEMMA RequestsKeepGrants ==
  ASSUME NEW A, GrantInv(A), NEW m \in Admin,
         LookUpChange(m) \/ SelectActive(m) \/ GetsRow(m) \/ CountVersions(m) \/ ChangeDrops(m)
  PROVE  GrantInv(A)'
<1>0. GrantTyped(A)
  BY DEF GrantInv
<1>1. CASE LookUpChange(m)
  <2>1. CASE AnswerAgain(m)
    BY <1>1, <2>1, RepeatedChanges DEF LookUpChange
  <2>2. CASE /\ granting' = [granting EXCEPT ![m].at = "selecting"]
             /\ UNCHANGED <<verdict, grantLock>>
    <3>1. /\ granting' \in [Admin -> [ask : A, at : AdminSteps, held : Nat, version : Nat]]
          /\ granting'[m].ask = granting[m].ask /\ granting'[m].at = "selecting"
          /\ \A r \in Admin \ {m} : granting'[r] = granting[r]
      BY <1>0, <2>2 DEF GrantTyped, AdminSteps
    <3> QED BY <1>1, <2>2, <3>1, MovesWithoutRows DEF LookUpChange
  <2> QED BY <1>1, <2>1, <2>2 DEF LookUpChange
<1>2. CASE SelectActive(m)
  <2>1. CASE HoldsGrant(m, NoGrant)
    BY <1>2, <2>1, HeldGrants DEF SelectActive
  <2>2. ASSUME NEW g \in ActiveGrants, grantLock[g] = NoAdmin, HoldsGrant(m, g)
        PROVE  GrantInv(A)'
    BY <1>2, <2>2, HeldGrants DEF SelectActive
  <2>3. ASSUME NEW g \in ActiveGrants,
               granting' = [granting EXCEPT ![m].at = "waiting", ![m].held = g], UNCHANGED grantLock
        PROVE  GrantInv(A)'
    <3>1. g \in Nat
      BY <1>0 DEF ActiveGrants, GrantTyped
    <3>2. /\ granting' \in [Admin -> [ask : A, at : AdminSteps, held : Nat, version : Nat]]
          /\ granting'[m].ask = granting[m].ask /\ granting'[m].at = "waiting"
          /\ \A r \in Admin \ {m} : granting'[r] = granting[r]
      <4>1. TakesGrant(m, "waiting", g) /\ "waiting" \in AdminSteps
        BY <2>3 DEF TakesGrant, AdminSteps
      <4> QED BY <1>0, <3>1, <4>1, RequestsHold
    <3> QED BY <1>2, <2>3, <3>2, MovesWithoutRows DEF SelectActive
  <2> QED BY <1>2, <2>1, <2>2, <2>3 DEF SelectActive
<1>3. CASE GetsRow(m)
  <2>1. CASE granting[m].held \in ActiveGrants
    BY <1>3, <2>1, HeldGrants DEF GetsRow
  <2>2. CASE granting[m].held \notin ActiveGrants
    BY <1>3, <2>2, HeldGrants DEF GetsRow
  <2> QED BY <2>1, <2>2
<1>4. CASE CountVersions(m)
  <2> DEFINE held == granting[m].held
  <2>1. CASE AnswerAgain(m) \/ RefuseChange(m)
    BY <1>4, <2>1, RepeatedChanges, RefusedChanges DEF CountVersions
  <2>2. CASE /\ ChangeUnder(granting[m].ask.key) = {}
             /\ CountIsExpected(m)
             /\ granting[m].ask.kind = "revoke" => held # NoGrant
             /\ granting' = [granting EXCEPT ![m].at = "writing", ![m].version = HighestVersion + 1]
             /\ UNCHANGED <<verdict, grantLock>>
    <3>1. HighestVersion \in Nat /\ HighestVersion = granting[m].ask.expected
      BY <1>0, <2>2, HighestIsThere DEF GrantInv, CountIsExpected
    <3>2. /\ granting' \in [Admin -> [ask : A, at : AdminSteps, held : Nat, version : Nat]]
          /\ granting'[m].ask = granting[m].ask /\ granting'[m].at = "writing"
          /\ granting'[m].held = granting[m].held /\ granting'[m].version = HighestVersion + 1
          /\ \A r \in Admin \ {m} : granting'[r] = granting[r]
      <4>1. /\ CountsOn(m, "writing", HighestVersion + 1)
            /\ "writing" \in AdminSteps /\ HighestVersion + 1 \in Nat
        BY <2>2, <3>1 DEF CountsOn, AdminSteps
      <4> QED BY <1>0, <4>1, RequestsCount
    <3>3. UNCHANGED <<grants, changes, viewing>> /\ granting[m].at = "counting"
      BY <1>4 DEF CountVersions
    <3>4. HighestVersion' = HighestVersion /\ changes' = changes
      BY <3>3 DEF HighestVersion
    <3>5. WriterKnows(m)'
      BY <2>2, <3>1, <3>2, <3>4 DEF WriterKnows, ChangeUnder
    <3> QED BY <2>2, <3>2, <3>3, <3>5, MovesWithoutRows
  <2> QED BY <1>4, <2>1, <2>2 DEF CountVersions
<1>5. CASE ChangeDrops(m)
  BY <1>5, RefusedChanges DEF ChangeDrops
<1> QED BY <1>1, <1>2, <1>3, <1>4, <1>5

----------------------------------------------------------------------------
\* Nobody writes beside a request that may: whoever else holds a row holds none that is active.
LEMMA WritesAlone ==
  ASSUME NEW A, GrantInv(A), NEW m \in Admin, granting[m].at = "writing",
         ActiveGrants \subseteq {granting[m].held}, NEW r \in Admin, r # m,
         granting[r].at \in {"counting", "writing"}
  PROVE  granting[r].held = NoGrant
<1>1. SUFFICES ASSUME granting[r].held # NoGrant PROVE FALSE
  OBVIOUS
<1>2. granting[r].held \in ActiveGrants /\ grantLock[granting[r].held] = r
  BY <1>1 DEF GrantInv, HoldersHold
<1>3. granting[m].held = granting[r].held /\ granting[m].held # NoGrant
  BY <1>1, <1>2
<1>4. grantLock[granting[m].held] = m
  BY <1>3 DEF GrantInv, HoldersHold
<1> QED BY <1>2, <1>3, <1>4

\* What a change leaves: g is the grant it made or ended, under version n.
ChangeLeaves(m, g, n) ==
  /\ grants' \in Seq(GrantRow) /\ g \in DOMAIN grants' /\ DOMAIN grants' = DOMAIN grants \cup {g}
  /\ \A h \in DOMAIN grants : grants'[h].tags = grants[h].tags
  /\ \A h \in DOMAIN grants \ {g} : grants'[h].version = grants[h].version
  /\ grants'[g].version = n
  /\ ActiveGrants' \subseteq {g}
  /\ g \in ActiveGrants' => granting[m].ask.kind = "set" /\ grants'[g].tags = granting[m].ask.tags
  /\ grantLock' \in Seq(Admin \cup {NoAdmin}) /\ Len(grantLock') = Len(grants')
  /\ ChangeMade(m, g)
  /\ UNCHANGED viewing

LEMMA SetsLeave ==
  ASSUME NEW A, GrantAsks(A), GrantInv(A), NEW m \in Admin, CommitSet(m),
         ActiveGrants \ {granting[m].held} = {}, ChangeUnder(granting[m].ask.key) = {}
  PROVE  ChangeLeaves(m, Len(grants) + 1, granting[m].version)
<1> DEFINE n == Len(grants)
           new == NewGrant(m)
           S == Admin \cup {NoAdmin}
<1>0. /\ GrantTyped(A) /\ n \in Nat /\ DOMAIN grants = 1..n /\ \A g \in 1..n : grants[g] \in GrantRow
      /\ granting[m].ask \in A /\ granting[m].ask.kind = "set" /\ granting[m].version \in Nat
  BY DEF GrantInv, GrantTyped, CommitSet
<1>1. /\ grants' = Append(RevokedGrants(m), new) /\ grantLock' = Append(Unlocked(m), NoAdmin)
      /\ ChangeMade(m, n + 1) /\ UNCHANGED viewing
  BY DEF CommitSet
<1>2. new \in GrantRow /\ new.version = granting[m].version /\ new.tags = granting[m].ask.tags
  BY <1>0 DEF NewGrant, GrantRow, GrantAsks
<1>3. ASSUME NEW g \in 1..n
      PROVE  /\ RevokedGrants(m)[g] \in GrantRow
             /\ RevokedGrants(m)[g].tags = grants[g].tags
             /\ RevokedGrants(m)[g].version = grants[g].version
             /\ RevokedGrants(m)[g].revoked
  <2>1. RevokedGrants(m)[g] = IF g = granting[m].held THEN [grants[g] EXCEPT !.revoked = TRUE]
                              ELSE grants[g]
    BY <1>0 DEF RevokedGrants
  <2>2. grants[g] \in [version : Nat, tags : Permission, revoked : BOOLEAN]
    BY <1>0 DEF GrantRow
  <2>3. g # granting[m].held => grants[g].revoked
    BY <1>0 DEF ActiveGrants
  <2> QED BY <2>1, <2>2, <2>3 DEF GrantRow
<1>4. RevokedGrants(m) \in [1..n -> GrantRow]
  BY <1>0, <1>3 DEF RevokedGrants
<1>5. RevokedGrants(m) \in Seq(GrantRow) /\ Len(RevokedGrants(m)) = n
  BY <1>0, <1>4, FirstNumbers
<1>6. /\ grants' \in Seq(GrantRow) /\ Len(grants') = n + 1 /\ DOMAIN grants' = 1..(n + 1)
      /\ \A g \in 1..n : grants'[g] = RevokedGrants(m)[g]
      /\ grants'[n + 1] = new
  <2> HIDE DEF new
  <2> QED BY <1>0, <1>1, <1>2, <1>5
<1>7. ActiveGrants' \subseteq {n + 1}
  BY <1>3, <1>6 DEF ActiveGrants
<1>8. grantLock' \in Seq(S) /\ Len(grantLock') = n + 1
  <2>1. Unlocked(m) \in Seq(S) /\ Len(Unlocked(m)) = n /\ NoAdmin \in S
    BY <1>0, ReleasesOwn
  <2> HIDE DEF S
  <2> QED BY <1>0, <1>1, <2>1
<1> QED BY <1>0, <1>1, <1>2, <1>3, <1>6, <1>7, <1>8 DEF ChangeLeaves

LEMMA RevocationsLeave ==
  ASSUME NEW A, GrantInv(A), NEW m \in Admin, CommitRevoke(m)
  PROVE  /\ ChangeLeaves(m, granting[m].held, granting[m].version) /\ granting[m].held \in ActiveGrants
         /\ ActiveGrants' = {}
<1> DEFINE n == Len(grants)
           k == granting[m].held
           v == granting[m].version
<1>0. /\ GrantTyped(A) /\ n \in Nat /\ DOMAIN grants = 1..n /\ \A g \in 1..n : grants[g] \in GrantRow
      /\ v \in Nat
  BY DEF GrantInv, GrantTyped
<1>1. /\ grants' = [RevokedGrants(m) EXCEPT ![k].version = v] /\ grantLock' = Unlocked(m)
      /\ ChangeMade(m, k) /\ UNCHANGED viewing
  BY DEF CommitRevoke
<1>2. k \in ActiveGrants
  BY DEF GrantInv, WritersKnow, WriterKnows, HoldersHold, CommitRevoke
<1>3. k \in 1..n /\ ActiveGrants = {k}
  BY <1>0, <1>2 DEF GrantInv, AtMostOneActive, ActiveGrants
<1>4. DOMAIN grants' = 1..n
  BY <1>0, <1>1 DEF RevokedGrants
<1>5. ASSUME NEW g \in 1..n, g # k PROVE grants'[g] = grants[g] /\ grants[g].revoked
  BY <1>0, <1>1, <1>3, <1>5 DEF RevokedGrants, ActiveGrants
<1>6. grants'[k] \in GrantRow /\ grants'[k].tags = grants[k].tags /\ grants'[k].version = v
      /\ grants'[k].revoked
  <2>1. grants'[k] = [[grants[k] EXCEPT !.revoked = TRUE] EXCEPT !.version = v]
    BY <1>0, <1>1, <1>3 DEF RevokedGrants
  <2>2. grants[k] \in [version : Nat, tags : Permission, revoked : BOOLEAN]
    BY <1>0, <1>3 DEF GrantRow
  <2>3. grants'[k] = [version |-> v, tags |-> grants[k].tags, revoked |-> TRUE]
    <3> HIDE DEF k, v
    <3> QED BY <2>1, <2>2
  <2>4. grants[k].tags \in Permission
    BY <2>2
  <2> HIDE DEF k, v
  <2> QED BY <1>0, <2>3, <2>4 DEF GrantRow
<1>7. grants' \in [1..n -> GrantRow]
  <2>1. grants' = [g \in 1..n |-> grants'[g]]
    BY <1>0, <1>1 DEF RevokedGrants
  <2>2. \A g \in 1..n : grants'[g] \in GrantRow
    BY <1>0, <1>5, <1>6
  <2> HIDE DEF n
  <2> QED BY <1>4, <2>1, <2>2
<1>8. grants' \in Seq(GrantRow) /\ Len(grants') = n
  BY <1>0, <1>7, FirstNumbers
<1>9. ActiveGrants' = {}
  BY <1>4, <1>5, <1>6 DEF ActiveGrants
<1>10. grantLock' \in Seq(Admin \cup {NoAdmin}) /\ Len(grantLock') = n
  BY <1>0, <1>1, ReleasesOwn
<1> QED BY <1>0, <1>1, <1>2, <1>3, <1>4, <1>5, <1>6, <1>8, <1>9, <1>10 DEF ChangeLeaves

\* A change and its grant keep the invariant.
LEMMA ChangesKeepGrants ==
  ASSUME NEW A, GrantAsks(A), GrantInv(A), NEW m \in Admin, granting[m].at = "writing",
         NEW g, ChangeLeaves(m, g, granting[m].version), ActiveGrants \subseteq {granting[m].held},
         ChangeUnder(granting[m].ask.key) = {},
         g \in DOMAIN grants => \A h \in DOMAIN grants : grants[h].version <= granting[m].version
  PROVE  GrantInv(A)'
<1> DEFINE v == granting[m].version
           c == [ask |-> granting[m].ask, version |-> v, grant |-> g]
<1>a. GrantTyped(A) /\ v \in Nat /\ granting[m].ask \in A
  BY DEF GrantInv, GrantTyped
<1>b. g \in DOMAIN grants' /\ grants' \in Seq(GrantRow) /\ DOMAIN grants' = DOMAIN grants \cup {g}
  BY DEF ChangeLeaves
<1>c. g \in Nat /\ \A h \in DOMAIN grants' : grants'[h] \in GrantRow
  BY <1>b, InSequence
<1>0. /\ GrantTyped(A) /\ v \in Nat /\ granting[m].ask \in A
      /\ g \in DOMAIN grants' /\ grants' \in Seq(GrantRow)
      /\ DOMAIN grants' = DOMAIN grants \cup {g} /\ g \in Nat
  BY <1>a, <1>b, <1>c
<1>1. /\ changes' = changes \cup {c} /\ c.ask = granting[m].ask /\ c.version = v /\ c.grant = g
      /\ c \in [ask : A, version : Nat, grant : Nat]
  BY <1>0 DEF ChangeLeaves, ChangeMade
<1> HIDE DEF c
<1>2. PICK how \in {"done", "refused"} :
        /\ verdict' = [verdict EXCEPT ![m] =
             [how |-> how, version |-> IF how = "done" THEN v ELSE 0]]
        /\ granting' = [granting EXCEPT ![m].at = "ended"]
  BY DEF ChangeLeaves, ChangeMade
<1>3. [how |-> how, version |-> IF how = "done" THEN v ELSE 0] \in AdminAnswers
  BY <1>0 DEF AdminAnswers
<1>4. /\ granting' \in [Admin -> [ask : A, at : AdminSteps, held : Nat, version : Nat]]
      /\ granting'[m].ask = granting[m].ask /\ granting'[m].at = "ended"
      /\ \A r \in Admin \ {m} : granting'[r] = granting[r]
  BY <1>0, <1>2 DEF GrantTyped, AdminSteps
<1>5. /\ verdict' \in [Admin -> AdminAnswers]
      /\ verdict'[m].how = how /\ (how = "done" => verdict'[m].version = v)
      /\ \A r \in Admin \ {m} : verdict'[r] = verdict[r]
  BY <1>0, <1>2, <1>3 DEF GrantTyped
<1>6. GrantTyped(A)'
  BY <1>0, <1>1, <1>4, <1>5 DEF GrantTyped, ChangeLeaves
<1>7. ActiveGrants' \subseteq {g}
  BY DEF ChangeLeaves
<1>8. AtMostOneActive'
  BY <1>7 DEF AtMostOneActive
<1>9. \A r \in Admin \ {m} : granting[r].at \in {"counting", "writing"} => granting[r].held = NoGrant
  BY WritesAlone
<1>10. HoldersHold'
  BY <1>4, <1>9 DEF HoldersHold
<1>11. WritersKnow'
  <2>1. ASSUME NEW r \in Admin, granting'[r].at = "writing" PROVE WriterKnows(r)'
    <3>1. r # m /\ granting'[r] = granting[r]
      BY <1>4, <2>1
    <3>2. granting[r].held = NoGrant /\ WriterKnows(r)
      BY <1>9, <2>1, <3>1 DEF GrantInv, WritersKnow
    <3> QED BY <3>1, <3>2 DEF WriterKnows
  <2> QED BY <2>1 DEF WritersKnow
<1>12. TopVersion'
  <2>1. \A h \in DOMAIN grants' : grants'[h].version \in Nat
    BY <1>c DEF GrantRow
  <2>2. /\ \A h \in DOMAIN grants \ {g} : grants'[h].version = grants[h].version
        /\ grants'[g].version = v
    BY DEF ChangeLeaves
  <2>3. CASE \A h \in DOMAIN grants' : grants'[h].version <= v
    BY <1>0, <2>2, <2>3 DEF TopVersion
  <2>4. CASE ~ \A h \in DOMAIN grants' : grants'[h].version <= v
    <3>1. PICK k \in DOMAIN grants' : ~(grants'[k].version <= v)
      BY <2>4
    <3>2. k # g /\ k \in DOMAIN grants /\ grants[k].version = grants'[k].version
      BY <1>0, <2>2, <3>1
    <3>3. PICK t \in DOMAIN grants : \A h \in DOMAIN grants : grants[h].version <= grants[t].version
      BY <3>2 DEF GrantInv, TopVersion
    <3>4. t # g
      \* A grant that is ended gets a version above all of them.
      <4>1. t = g => grants[k].version <= v
        BY <3>2, <3>3
      <4> QED BY <3>1, <3>2, <4>1
    <3>5. grants'[t].version = grants[t].version /\ t \in DOMAIN grants'
      BY <1>0, <2>2, <3>4
    <3>6. v < grants'[t].version
      BY <1>0, <2>1, <3>1, <3>2, <3>3, <3>5
    <3>7. \A h \in DOMAIN grants' : grants'[h].version <= grants'[t].version
      BY <1>0, <2>1, <2>2, <3>3, <3>5, <3>6
    <3> QED BY <3>5, <3>7 DEF TopVersion
  <2> QED BY <2>3, <2>4
<1>13. ActiveAreMade'
  <2>1. ASSUME g \in ActiveGrants' PROVE MadeBy(c, g, grants'[g].version, grants'[g].tags)
    BY <1>1, <2>1 DEF ChangeLeaves, MadeBy
  <2> QED BY <1>1, <1>7, <2>1 DEF ActiveAreMade
<1>14. ViewersFound' /\ ViewsAreTrue'
  <2>1. UNCHANGED viewing /\ changes \subseteq changes'
    BY <1>1 DEF ChangeLeaves
  <2>2. \A h \in DOMAIN grants : grants'[h].tags = grants[h].tags
    BY DEF ChangeLeaves
  <2>3. ViewersFound'
    BY <1>0, <2>1, <2>2 DEF GrantInv, ViewersFound
  <2>4. ViewsAreTrue'
    BY <2>1 DEF GrantInv, ViewsAreTrue
  <2> QED BY <2>3, <2>4
<1>15. ChangesAreTold'
  <2>1. \A d \in changes : d.ask.key # c.ask.key
    BY <1>1 DEF ChangeUnder
  <2>2. \A d, f \in changes' : d.ask.key = f.ask.key => d = f
    BY <1>1, <2>1 DEF GrantInv, ChangesAreTold
  <2>3. ASSUME NEW r \in Admin, verdict'[r].how \in {"done", "repeated"}
        PROVE  \E d \in changes' : d.ask = granting'[r].ask /\ d.version = verdict'[r].version
    <3>1. CASE r = m
      BY <1>1, <1>4, <1>5, <2>3, <3>1
    <3>2. CASE r # m
      BY <1>1, <1>4, <1>5, <2>3, <3>2 DEF GrantInv, ChangesAreTold
    <3> QED BY <3>1, <3>2
  <2> QED BY <2>2, <2>3 DEF ChangesAreTold
<1> QED BY <1>6, <1>8, <1>10, <1>11, <1>12, <1>13, <1>14, <1>15 DEF GrantInv

LEMMA CommitsKeepGrants ==
  ASSUME NEW A, GrantAsks(A), GrantInv(A), NEW m \in Admin, CommitSet(m) \/ CommitRevoke(m)
  PROVE  GrantInv(A)'
<1>0. GrantTyped(A) /\ granting[m].at = "writing" /\ WriterKnows(m)
  BY DEF GrantInv, WritersKnow, CommitSet, CommitRevoke
<1>1. CASE CommitSet(m) /\ ~(ActiveGrants \ {granting[m].held} # {} \/ ChangeUnder(granting[m].ask.key) # {})
  <2>1. ActiveGrants \ {granting[m].held} = {} /\ ChangeUnder(granting[m].ask.key) = {}
    BY <1>1
  <2>2. ChangeLeaves(m, Len(grants) + 1, granting[m].version)
    BY <1>1, <2>1, SetsLeave
  <2>3. Len(grants) + 1 \notin DOMAIN grants /\ ActiveGrants \subseteq {granting[m].held}
    BY <1>0, <2>1 DEF GrantTyped
  <2> QED BY <1>0, <2>1, <2>2, <2>3, ChangesKeepGrants
<1>2. CASE CommitSet(m) /\ (ActiveGrants \ {granting[m].held} # {} \/ ChangeUnder(granting[m].ask.key) # {})
  <2>1. (AnswerAgain(m) \/ RefuseChange(m)) /\ UNCHANGED <<grants, changes, viewing>>
    BY <1>2 DEF CommitSet
  <2> QED BY <2>1, RepeatedChanges, RefusedChanges
<1>3. CASE CommitRevoke(m)
  <2>1. ChangeLeaves(m, granting[m].held, granting[m].version) /\ granting[m].held \in ActiveGrants
    BY <1>3, RevocationsLeave
  <2>2. granting[m].held # NoGrant
    BY <1>0, <1>3 DEF WriterKnows, CommitRevoke
  <2>3. /\ HighestVersion = granting[m].ask.expected /\ ChangeUnder(granting[m].ask.key) = {}
        /\ granting[m].version = HighestVersion + 1
    BY <1>0, <2>2 DEF WriterKnows
  <2>4. HighestVersion \in Nat /\ \A h \in DOMAIN grants : grants[h].version <= HighestVersion
    BY HighestIsThere DEF GrantInv
  <2>5. \A h \in DOMAIN grants : grants[h].version \in Nat
    <3>1. \A h \in DOMAIN grants : grants[h] \in GrantRow
      BY <1>0 DEF GrantTyped
    <3> QED BY <3>1 DEF GrantRow
  <2>6. \A h \in DOMAIN grants : grants[h].version <= granting[m].version
    BY <2>3, <2>4, <2>5
  <2>7. ActiveGrants \subseteq {granting[m].held}
    BY <2>1 DEF GrantInv, AtMostOneActive
  <2> QED BY <1>0, <2>1, <2>3, <2>6, <2>7, ChangesKeepGrants
<1> QED BY <1>1, <1>2, <1>3

\* What is read without a lock is told apart from what another change has made of it.
LEMMA ViewersKeepGrants ==
  ASSUME NEW A, GrantInv(A), NEW x \in Viewer,
         ViewVersion(x) \/ ViewActive(x) \/ ViewTags(x) \/ ViewAgain(x)
  PROVE  GrantInv(A)'
<1> DEFINE R == [at : ViewSteps, version : Nat, grant : Nat, tags : Permission \cup {{}}]
<1>a. UNCHANGED <<grants, grantLock, changes, granting, verdict>>
  BY DEF ViewVersion, ViewActive, ViewTags, ViewAgain
<1>b. GrantTyped(A) /\ grants \in Seq(GrantRow) /\ viewing \in [Viewer -> R] /\ viewing[x] \in R
  BY DEF GrantInv, GrantTyped
<1>0. /\ UNCHANGED <<grants, grantLock, changes, granting, verdict>>
      /\ GrantTyped(A) /\ viewing \in [Viewer -> R] /\ viewing[x] \in R
      /\ \A g \in DOMAIN grants : grants[g] \in GrantRow /\ g \in Nat
  BY <1>a, <1>b, InSequence
<1>1. /\ AtMostOneActive' /\ TopVersion' /\ HoldersHold' /\ WritersKnow' /\ ActiveAreMade' /\ ChangesAreTold'
  <2>1. ActiveGrants' = ActiveGrants /\ HighestVersion' = HighestVersion
    BY <1>0 DEF ActiveGrants, HighestVersion
  <2>2. AtMostOneActive' /\ TopVersion' /\ HoldersHold'
    BY <1>0, <2>1 DEF GrantInv, AtMostOneActive, TopVersion, HoldersHold
  <2>3. WritersKnow' /\ ActiveAreMade'
    BY <1>0, <2>1 DEF GrantInv, WritersKnow, WriterKnows, ActiveAreMade, ChangeUnder
  <2>4. ChangesAreTold'
    BY <1>0 DEF GrantInv, ChangesAreTold
  <2> QED BY <2>2, <2>3, <2>4
<1>2. HighestVersion \in Nat
  BY HighestIsThere DEF GrantInv
<1>3. SUFFICES /\ viewing' \in [Viewer -> R]
               /\ \A r \in Viewer \ {x} : viewing'[r] = viewing[r]
               /\ viewing'[x].at = "found" =>
                    /\ viewing'[x].grant \in DOMAIN grants
                    /\ \E c \in changes :
                         MadeBy(c, viewing'[x].grant, viewing'[x].version, grants[viewing'[x].grant].tags)
               /\ viewing'[x].at = "seen" /\ viewing'[x].grant # NoGrant =>
                    \E c \in changes :
                      MadeBy(c, viewing'[x].grant, viewing'[x].version, viewing'[x].tags)
  <2>1. GrantTyped(A)'
    BY <1>0, <1>3 DEF GrantTyped
  <2>2. ViewersFound'
    BY <1>0, <1>3 DEF GrantInv, ViewersFound
  <2>3. ViewsAreTrue'
    BY <1>0, <1>3 DEF GrantInv, ViewsAreTrue, MadeBy
  <2> QED BY <1>1, <2>1, <2>2, <2>3 DEF GrantInv
<1>4. CASE ViewVersion(x)
  <2>1. viewing' = [viewing EXCEPT ![x].at = "counted", ![x].version = HighestVersion]
    BY <1>4 DEF ViewVersion
  <2>2. viewing'[x] = [at |-> "counted", version |-> HighestVersion, grant |-> viewing[x].grant,
                       tags |-> viewing[x].tags]
    BY <1>0, <2>1
  <2>3. viewing'[x] \in R /\ viewing'[x].at = "counted"
    BY <1>0, <1>2, <2>2 DEF ViewSteps
  <2>4. viewing' \in [Viewer -> R] /\ \A r \in Viewer \ {x} : viewing'[r] = viewing[r]
    BY <1>0, <2>1, <2>3
  <2> QED BY <2>3, <2>4
<1>5. CASE ViewActive(x)
  <2>1. CASE viewing' = [viewing EXCEPT ![x].at = "seen", ![x].grant = NoGrant]
    <3>1. viewing'[x] = [at |-> "seen", version |-> viewing[x].version, grant |-> NoGrant,
                         tags |-> viewing[x].tags]
      BY <1>0, <2>1
    <3>2. viewing'[x] \in R /\ viewing'[x].at = "seen" /\ viewing'[x].grant = NoGrant
      BY <1>0, <3>1 DEF ViewSteps, NoGrant
    <3>3. viewing' \in [Viewer -> R] /\ \A r \in Viewer \ {x} : viewing'[r] = viewing[r]
      BY <1>0, <2>1, <3>2
    <3> QED BY <3>2, <3>3
  <2>2. ASSUME NEW g \in ActiveGrants, NEW step,
               step = IF grants[g].version = viewing[x].version THEN "found" ELSE "failed",
               viewing' = [viewing EXCEPT ![x].at = step, ![x].grant = g]
        PROVE  /\ viewing' \in [Viewer -> R]
               /\ \A r \in Viewer \ {x} : viewing'[r] = viewing[r]
               /\ viewing'[x].at # "seen"
               /\ viewing'[x].at = "found" =>
                    /\ viewing'[x].grant \in DOMAIN grants
                    /\ \E c \in changes :
                         MadeBy(c, viewing'[x].grant, viewing'[x].version, grants[viewing'[x].grant].tags)
    <3>1. viewing'[x] = [at |-> step, version |-> viewing[x].version, grant |-> g,
                         tags |-> viewing[x].tags]
      BY <1>0, <2>2
    <3>2. g \in Nat /\ step \in ViewSteps /\ step # "seen" /\ g \in DOMAIN grants
      BY <1>0, <2>2 DEF ActiveGrants, ViewSteps
    <3>3. viewing'[x] \in R /\ viewing'[x].at = step /\ viewing'[x].grant = g
          /\ viewing'[x].version = viewing[x].version
      BY <1>0, <3>1, <3>2
    <3>4. viewing' \in [Viewer -> R] /\ \A r \in Viewer \ {x} : viewing'[r] = viewing[r]
      BY <1>0, <2>2, <3>3
    <3>5. \E c \in changes : MadeBy(c, g, grants[g].version, grants[g].tags)
      BY DEF GrantInv, ActiveAreMade
    <3>6. step = "found" => grants[g].version = viewing[x].version
      BY <2>2
    <3> QED BY <3>2, <3>3, <3>4, <3>5, <3>6
  <2> QED BY <1>5, <2>1, <2>2 DEF ViewActive
<1>6. CASE ViewTags(x)
  <2> DEFINE tags == grants[viewing[x].grant].tags
  <2>1. viewing' = [viewing EXCEPT ![x].at = "seen", ![x].tags = tags] /\ viewing[x].at = "found"
    BY <1>6 DEF ViewTags
  <2>2. /\ viewing[x].grant \in DOMAIN grants
        /\ \E c \in changes : MadeBy(c, viewing[x].grant, viewing[x].version, tags)
    BY <2>1 DEF GrantInv, ViewersFound
  <2>3. tags \in Permission
    <3>1. grants[viewing[x].grant] \in GrantRow
      BY <1>0, <2>2
    <3> QED BY <3>1 DEF GrantRow
  <2> HIDE DEF tags
  <2>4. viewing'[x] = [at |-> "seen", version |-> viewing[x].version, grant |-> viewing[x].grant,
                       tags |-> tags]
    BY <1>0, <2>1
  <2>5. /\ viewing'[x] \in R /\ viewing'[x].at = "seen" /\ viewing'[x].tags = tags
        /\ viewing'[x].grant = viewing[x].grant /\ viewing'[x].version = viewing[x].version
    BY <1>0, <2>3, <2>4 DEF ViewSteps
  <2>6. viewing' \in [Viewer -> R] /\ \A r \in Viewer \ {x} : viewing'[r] = viewing[r]
    BY <1>0, <2>1, <2>5
  <2> QED BY <2>2, <2>5, <2>6
<1>7. CASE ViewAgain(x)
  <2> DEFINE fresh == [at |-> "idle", version |-> 0, grant |-> NoGrant, tags |-> {}]
  <2>1. viewing' = [viewing EXCEPT ![x] = fresh]
    BY <1>7 DEF ViewAgain
  <2>2. fresh \in R /\ fresh.at = "idle"
    BY DEF ViewSteps, NoGrant
  <2> HIDE DEF fresh
  <2>3. viewing'[x] = fresh /\ viewing' \in [Viewer -> R]
        /\ \A r \in Viewer \ {x} : viewing'[r] = viewing[r]
    BY <1>0, <2>1, <2>2
  <2> QED BY <2>2, <2>3
<1> QED BY <1>4, <1>5, <1>6, <1>7

LEMMA GrantSteps ==
  ASSUME NEW A, GrantAsks(A), GrantInv(A), [GrantsNext]_grantVars
  PROVE  GrantInv(A)'
<1>1. CASE UNCHANGED grantVars
  <2>1. UNCHANGED <<grants, grantLock, changes, granting, verdict, viewing>>
    BY <1>1 DEF grantVars
  <2>2. ActiveGrants' = ActiveGrants /\ HighestVersion' = HighestVersion
    BY <2>1 DEF ActiveGrants, HighestVersion
  <2>3. GrantTyped(A)' /\ AtMostOneActive' /\ TopVersion' /\ HoldersHold'
    BY <2>1, <2>2 DEF GrantInv, GrantTyped, AtMostOneActive, TopVersion, HoldersHold
  <2>4. WritersKnow' /\ ActiveAreMade' /\ ViewersFound'
    BY <2>1, <2>2 DEF GrantInv, WritersKnow, WriterKnows, ActiveAreMade, ViewersFound, ChangeUnder
  <2>5. ViewsAreTrue' /\ ChangesAreTold'
    BY <2>1 DEF GrantInv, ViewsAreTrue, ChangesAreTold
  <2> QED BY <2>3, <2>4, <2>5 DEF GrantInv
<1>2. ASSUME NEW m \in Admin, \/ LookUpChange(m) \/ SelectActive(m) \/ GetsRow(m)
                              \/ CountVersions(m) \/ CommitSet(m) \/ CommitRevoke(m) \/ ChangeDrops(m)
      PROVE  GrantInv(A)'
  BY <1>2, RequestsKeepGrants, CommitsKeepGrants
<1>3. ASSUME NEW x \in Viewer, ViewVersion(x) \/ ViewActive(x) \/ ViewTags(x) \/ ViewAgain(x)
      PROVE  GrantInv(A)'
  BY <1>3, ViewersKeepGrants
<1> QED BY <1>1, <1>2, <1>3 DEF GrantsNext

LEMMA GrantsAreAsPromised ==
  ASSUME NEW A, GrantInv(A) PROVE GrantsAreSound
<1>1. OneActiveGrant
  <2>1. CASE ActiveGrants = {}
    BY <2>1, FS_EmptySet DEF OneActiveGrant
  <2>2. CASE ActiveGrants # {}
    <3>1. PICK g \in ActiveGrants : TRUE
      BY <2>2
    <3>2. ActiveGrants = {g}
      BY <3>1 DEF GrantInv, AtMostOneActive
    <3> QED BY <3>2, FS_Singleton DEF OneActiveGrant
  <2> QED BY <2>1, <2>2
<1>2. LockedChangesAreNext
  BY DEF LockedChangesAreNext, GrantInv, HoldersHold, WritersKnow, WriterKnows
<1> QED BY <1>1, <1>2 DEF GrantsAreSound, GrantInv

\* One active grant at most, although a request may write without a lock; a change under a
\* lock is the next version, what is told of a change is so, and what a viewer is shown
\* belongs together (tool_permission_admin_store.py:60-260).
THEOREM GrantsAlwaysSound ==
  ASSUME NEW A, GrantAsks(A)
  PROVE  GrantsStart(A) /\ [][GrantsNext]_grantVars => []GrantsAreSound
<1>1. GrantsStart(A) => GrantInv(A)
  BY GrantsBegin
<1>2. GrantInv(A) /\ [GrantsNext]_grantVars => GrantInv(A)'
  BY GrantSteps
<1>3. GrantInv(A) => GrantsAreSound
  BY GrantsAreAsPromised
<1> QED BY <1>1, <1>2, <1>3, PTL

----------------------------------------------------------------------------
(* Dataset releases.  Who reviews or publishes holds the row from reading it   *)
(* to the commit; who creates one holds nothing, and finds at the insert        *)
(* whether there is one by now.                                               *)

CurationSteps == {"idle", "inserting", "holding", "ended"}
Rulings == {"none", "done", "lost", "repeated", "refused"}

ReleaseRow(A) ==
  [status : {"absent", "DRAFT", "PUBLISHED"}, revision : Nat,
   dataset : {a.dataset : a \in A} \cup {"none"}, by : {a.by : a \in A} \cup {"none"},
   created : SUBSET A, published : SUBSET A]
ReviewRow(A) ==
  [release : DatasetRelease, by : {a.by : a \in A}, role : Role, ask : A]

ReleasesTyped(A) ==
  /\ releases \in [DatasetRelease -> ReleaseRow(A)]
  /\ reviews \in SUBSET ReviewRow(A) /\ IsFiniteSet(reviews)
  /\ rowHolder \in [DatasetRelease -> Curation \cup {NoCuration}]
  /\ happened \in SUBSET [ask : A, revision : Nat]
  /\ curating \in [Curation -> [ask : A, at : CurationSteps, row : ReleaseRow(A)]]
  /\ ruling \in [Curation -> Rulings]
  /\ spectating \in [Spectator -> [at : {"idle", "row", "seen"}, release : SUBSET DatasetRelease,
                                   row : ReleaseRow(A), reviews : SUBSET ReviewRow(A)]]

\* A revision is the creation, a review or the publication.
BesideIt(row) == IF row.status = "PUBLISHED" THEN 2 ELSE 1
CountedSo(row, seen) ==
  AcceptableRelease(row, seen) /\ Cardinality(seen) >= row.revision - BesideIt(row)

RowsAddUp ==
  \A d \in DatasetRelease :
    /\ ~Exists(d) => releases[d] = NoRelease /\ ReviewsOf(d) = {}
    /\ Exists(d) => /\ AcceptableRelease(releases[d], ReviewsOf(d))
                    /\ releases[d].dataset # "none"
                    /\ releases[d].revision = Cardinality(ReviewsOf(d)) + BesideIt(releases[d])

\* Who holds a row has read what it is.
HoldersSee ==
  \A q \in Curation :
    /\ curating[q].at = "holding" =>
         /\ curating[q].ask.kind # "create"
         /\ rowHolder[curating[q].ask.release] = q
         /\ curating[q].row = releases[curating[q].ask.release]
         /\ Exists(curating[q].ask.release)
    /\ curating[q].at = "inserting" => curating[q].ask.kind = "create"

\* What a repeat is compared with was done.
AskedOf == {e.ask : e \in happened}
EarlierHappened ==
  /\ \A d \in DatasetRelease : releases[d].created \cup releases[d].published \subseteq AskedOf
  /\ \A v \in reviews : v.ask \in AskedOf

\* Between a reader's two statements reviews are added and the release published; what it
\* has read of the row still goes with the reviews there are.
ReadersMayGoOn ==
  \A x \in Spectator :
    /\ spectating[x].at = "row" =>
         \A d \in spectating[x].release :
           /\ Exists(d) /\ spectating[x].row.by = releases[d].by
           /\ CountedSo(spectating[x].row, ReviewsOf(d))
    /\ spectating[x].at = "seen" => CountedSo(spectating[x].row, spectating[x].reviews)

ReleasesInv(A) ==
  /\ ReleasesTyped(A) /\ RowsAddUp /\ HoldersSee /\ EarlierHappened /\ ReadersMayGoOn
  /\ ReleasesAddUp

\* The first state, whatever requests of A are made.
ReleasesStart(A) ==
  ReleasesInit /\ curating \in [Curation -> [ask : A, at : {"idle"}, row : {NoRelease}]]
----------------------------------------------------------------------------
LEMMA ReleasesBegin ==
  ASSUME NEW A, CurationAsks(A), ReleasesStart(A) PROVE ReleasesInv(A)
<1>0. NoRelease \in ReleaseRow(A)
  BY DEF NoRelease, ReleaseRow
<1>1. ReleasesTyped(A)
  <2>1. IsFiniteSet({})
    BY FS_EmptySet
  <2> QED BY <1>0, <2>1 DEF ReleasesStart, ReleasesInit, ReleasesTyped, CurationSteps, Rulings
<1>2. RowsAddUp /\ HoldersSee
  BY DEF ReleasesStart, ReleasesInit, RowsAddUp, HoldersSee, Exists, NoRelease, ReviewsOf
<1>3. EarlierHappened /\ ReadersMayGoOn
  BY DEF ReleasesStart, ReleasesInit, EarlierHappened, ReadersMayGoOn, NoRelease, AskedOf
<1>4. ReleasesAddUp
  <2>1. 1..0 = {}
    OBVIOUS
  <2>2. \A d \in DatasetRelease : {e.revision : e \in {f \in happened : f.ask.release = d}} = 1..releases[d].revision
    BY <2>1 DEF ReleasesStart, ReleasesInit, NoRelease
  <2> QED BY <2>2 DEF ReleasesStart, ReleasesInit, ReleasesAddUp, Exists, NoRelease
<1> QED BY <1>1, <1>2, <1>3, <1>4 DEF ReleasesInv

\* A step of one request that writes no row: it may take a row or release it.
CurationMoves(A, q) ==
  /\ UNCHANGED <<releases, reviews, happened, spectating>>
  /\ curating' \in [Curation -> [ask : A, at : CurationSteps, row : ReleaseRow(A)]]
  /\ ruling' \in [Curation -> Rulings]
  /\ rowHolder' \in [DatasetRelease -> Curation \cup {NoCuration}]
  /\ curating'[q].ask = curating[q].ask
  /\ \A r \in Curation \ {q} : curating'[r] = curating[r] /\ ruling'[r] = ruling[r]
  /\ \A d \in DatasetRelease : \A r \in Curation \ {q} : rowHolder[d] = r => rowHolder'[d] = r

LEMMA CurationMovesKeep ==
  ASSUME NEW A, CurationAsks(A), ReleasesInv(A), NEW q \in Curation, CurationMoves(A, q),
         curating'[q].at = "holding" =>
           /\ curating[q].ask.kind # "create"
           /\ rowHolder'[curating[q].ask.release] = q
           /\ curating'[q].row = releases[curating[q].ask.release]
           /\ Exists(curating[q].ask.release),
         curating'[q].at = "inserting" => curating[q].ask.kind = "create",
         ruling'[q] \in {"done", "repeated"} => \E e \in happened : SameCuration(curating[q].ask, e.ask)
  PROVE  ReleasesInv(A)'
<1>1. ReleasesTyped(A)'
  BY DEF ReleasesInv, ReleasesTyped, CurationMoves
<1>2. RowsAddUp'
  BY DEF ReleasesInv, RowsAddUp, CurationMoves, Exists, ReviewsOf
<1>3. HoldersSee'
  <2>1. ASSUME NEW r \in Curation, r # q
        PROVE  /\ curating'[r].at = "holding" =>
                    /\ curating'[r].ask.kind # "create"
                    /\ rowHolder'[curating'[r].ask.release] = r
                    /\ curating'[r].row = releases'[curating'[r].ask.release]
                    /\ releases'[curating'[r].ask.release].status # "absent"
               /\ curating'[r].at = "inserting" => curating'[r].ask.kind = "create"
    <3>1. curating'[r] = curating[r] /\ curating[r].ask.release \in DatasetRelease
      BY <2>1 DEF CurationMoves, CurationAsks, ReleasesInv, ReleasesTyped
    <3> QED BY <2>1, <3>1 DEF ReleasesInv, HoldersSee, CurationMoves, Exists
  <2>2. /\ curating'[q].at = "holding" =>
             /\ curating'[q].ask.kind # "create"
             /\ rowHolder'[curating'[q].ask.release] = q
             /\ curating'[q].row = releases'[curating'[q].ask.release]
             /\ releases'[curating'[q].ask.release].status # "absent"
        /\ curating'[q].at = "inserting" => curating'[q].ask.kind = "create"
    BY DEF CurationMoves, Exists
  <2> QED BY <2>1, <2>2 DEF HoldersSee, Exists
<1>4. EarlierHappened' /\ ReadersMayGoOn'
  BY DEF ReleasesInv, EarlierHappened, ReadersMayGoOn, CurationMoves, AskedOf, Exists, ReviewsOf
<1>5. ReleasesAddUp'
  BY DEF ReleasesInv, ReleasesAddUp, CurationMoves, Exists
<1> QED BY <1>1, <1>2, <1>3, <1>4, <1>5 DEF ReleasesInv

\* An answer ends the request and releases its row.
LEMMA RulingsEndCurations ==
  ASSUME NEW A, ReleasesTyped(A), NEW q \in Curation, NEW answer \in Rulings, Rule(q, answer)
  PROVE  /\ curating' \in [Curation -> [ask : A, at : CurationSteps, row : ReleaseRow(A)]]
         /\ ruling' \in [Curation -> Rulings]
         /\ rowHolder' \in [DatasetRelease -> Curation \cup {NoCuration}]
         /\ curating'[q].ask = curating[q].ask /\ curating'[q].at = "ended"
         /\ ruling'[q] = answer
         /\ \A r \in Curation \ {q} : curating'[r] = curating[r] /\ ruling'[r] = ruling[r]
         /\ \A d \in DatasetRelease : \A r \in Curation \ {q} : rowHolder[d] = r => rowHolder'[d] = r
  BY DEF ReleasesTyped, Rule, CurationSteps

LEMMA RefusedCurations ==
  ASSUME NEW A, CurationAsks(A), ReleasesInv(A), NEW q \in Curation, RefuseCuration(q)
  PROVE  ReleasesInv(A)'
<1>1. Rule(q, "refused") /\ ReleasesTyped(A) /\ "refused" \in Rulings
      /\ UNCHANGED <<releases, reviews, happened, spectating>>
  BY DEF RefuseCuration, ReleasesInv, Rulings
<1>2. CurationMoves(A, q) /\ curating'[q].at = "ended" /\ ruling'[q] = "refused"
  BY <1>1, RulingsEndCurations DEF CurationMoves
<1>3. curating'[q].at \notin {"holding", "inserting"} /\ ruling'[q] \notin {"done", "repeated"}
  BY <1>2
<1> QED BY <1>2, <1>3, CurationMovesKeep

LEMMA RepeatedCurations ==
  ASSUME NEW A, CurationAsks(A), ReleasesInv(A), NEW q \in Curation, NEW earlier \in SUBSET AskedOf,
         RepeatCuration(q, earlier)
  PROVE  ReleasesInv(A)'
<1> DEFINE same == \E a \in earlier : SameCuration(curating[q].ask, a)
           answer == IF same THEN "repeated" ELSE "refused"
<1>1. Rule(q, answer) /\ ReleasesTyped(A) /\ answer \in Rulings
      /\ UNCHANGED <<releases, reviews, happened, spectating>>
  BY DEF RepeatCuration, ReleasesInv, Rulings
<1>2. CurationMoves(A, q) /\ curating'[q].at = "ended" /\ ruling'[q] = answer
  BY <1>1, RulingsEndCurations DEF CurationMoves
<1>3. curating'[q].at \notin {"holding", "inserting"}
  BY <1>2
<1>4. ruling'[q] \in {"done", "repeated"} => \E e \in happened : SameCuration(curating[q].ask, e.ask)
  <2>1. ASSUME same PROVE \E e \in happened : SameCuration(curating[q].ask, e.ask)
    <3>1. PICK a \in earlier : SameCuration(curating[q].ask, a)
      BY <2>1
    <3>2. PICK e \in happened : a = e.ask
      BY DEF AskedOf
    <3> QED BY <3>1, <3>2
  <2> QED BY <1>2, <2>1
<1> QED BY <1>2, <1>3, <1>4, CurationMovesKeep

LEMMA LookUpsKeepReleases ==
  ASSUME NEW A, CurationAsks(A), ReleasesInv(A), NEW q \in Curation, LookUpRelease(q)
  PROVE  ReleasesInv(A)'
<1> DEFINE ask == curating[q].ask
<1>0. ask \in A /\ ask.release \in DatasetRelease /\ ask.kind = "create"
  BY DEF LookUpRelease, ReleasesInv, ReleasesTyped, CurationAsks
<1>1. CASE RefuseCuration(q)
  BY <1>1, RefusedCurations
<1>2. CASE RepeatCuration(q, releases[ask.release].created)
  <2>1. releases[ask.release].created \in SUBSET AskedOf
    BY <1>0 DEF ReleasesInv, EarlierHappened
  <2> QED BY <1>2, <2>1, RepeatedCurations
<1>3. CASE /\ curating' = [curating EXCEPT ![q].at = "inserting"]
           /\ UNCHANGED <<releases, reviews, rowHolder, happened, ruling, spectating>>
  <2>1. CurationMoves(A, q) /\ curating'[q].at = "inserting" /\ ruling'[q] = ruling[q]
    BY <1>3 DEF CurationMoves, ReleasesInv, ReleasesTyped, CurationSteps
  <2>2. ruling'[q] \in {"done", "repeated"} => \E e \in happened : SameCuration(curating[q].ask, e.ask)
    BY <2>1 DEF ReleasesInv, ReleasesAddUp
  <2> QED BY <1>0, <2>1, <2>2, CurationMovesKeep
<1> QED BY <1>1, <1>2, <1>3 DEF LookUpRelease

LEMMA HoldsKeepReleases ==
  ASSUME NEW A, CurationAsks(A), ReleasesInv(A), NEW q \in Curation, HoldRelease(q)
  PROVE  ReleasesInv(A)'
<1> DEFINE d == curating[q].ask.release
<1>0. d \in DatasetRelease /\ releases[d] \in ReleaseRow(A) /\ curating[q].ask.kind # "create"
  BY DEF HoldRelease, ReleasesInv, ReleasesTyped, CurationAsks
<1>1. CASE RefuseCuration(q)
  BY <1>1, RefusedCurations
<1>2. CASE ~RefuseCuration(q)
  <2>1. /\ rowHolder[d] = NoCuration /\ Exists(d)
        /\ rowHolder' = [rowHolder EXCEPT ![d] = q]
        /\ curating' = [curating EXCEPT ![q].at = "holding", ![q].row = releases[d]]
        /\ UNCHANGED <<releases, reviews, happened, ruling, spectating>>
    BY <1>2 DEF HoldRelease
  <2>2. /\ curating' \in [Curation -> [ask : A, at : CurationSteps, row : ReleaseRow(A)]]
        /\ curating'[q].ask = curating[q].ask /\ curating'[q].at = "holding"
        /\ curating'[q].row = releases[d]
        /\ \A r \in Curation \ {q} : curating'[r] = curating[r]
    BY <1>0, <2>1 DEF ReleasesInv, ReleasesTyped, CurationSteps
  <2>3. rowHolder' \in [DatasetRelease -> Curation \cup {NoCuration}] /\ rowHolder'[d] = q
    BY <1>0, <2>1 DEF ReleasesInv, ReleasesTyped
  <2>4. ASSUME NEW e \in DatasetRelease, NEW r \in Curation \ {q}, rowHolder[e] = r
        PROVE  rowHolder'[e] = r
    BY <1>0, <2>1, <2>4, ReleaseAssumption DEF ReleasesInv, ReleasesTyped, ReleaseAssumption
  <2>5. CurationMoves(A, q)
    BY <2>1, <2>2, <2>3, <2>4 DEF CurationMoves, ReleasesInv, ReleasesTyped
  <2>6. ruling'[q] \in {"done", "repeated"} => \E e \in happened : SameCuration(curating[q].ask, e.ask)
    BY <2>1 DEF ReleasesInv, ReleasesAddUp
  <2> HIDE DEF d
  <2> QED BY <1>0, <2>1, <2>2, <2>3, <2>5, <2>6, CurationMovesKeep DEF d
<1> QED BY <1>1, <1>2
----------------------------------------------------------------------------
\* A commit makes the next revision of a row nobody else holds, and with it at most one
\* review, of which the row then counts.
LEMMA CommitsKeepReleases ==
  ASSUME NEW A, CurationAsks(A), ReleasesInv(A), NEW q \in Curation, NEW row \in ReleaseRow(A),
         NEW ask, ask = curating[q].ask, NEW d, d = ask.release,
         CommitRelease(q, row),
         row.revision = releases[d].revision + 1, row.revision = ask.expected + 1,
         row.status # "absent", row.dataset # "none",
         reviews' \in SUBSET ReviewRow(A), IsFiniteSet(reviews'), reviews \subseteq reviews',
         \A v \in reviews' \ reviews : v.release = d /\ v.ask = ask,
         AcceptableRelease(row, ReviewsOf(d)'),
         row.revision = Cardinality(ReviewsOf(d)') + BesideIt(row),
         row.created \cup row.published \subseteq AskedOf \cup {ask},
         IF Exists(d)
         THEN /\ curating[q].at = "holding"
              /\ row.by = releases[d].by
              /\ row.dataset = releases[d].dataset
         ELSE \A e \in DatasetRelease : releases[e].dataset # row.dataset
  PROVE  ReleasesInv(A)'
<1> DEFINE event == [ask |-> ask, revision |-> row.revision]
<1>0. ask \in A /\ d \in DatasetRelease /\ ask.kind \in {"create", "review", "publish"}
      /\ releases[d] \in ReleaseRow(A) /\ releases[d].revision \in Nat /\ row.revision \in Nat
  BY DEF ReleasesInv, ReleasesTyped, CurationAsks, ReleaseRow
<1>1. /\ releases' = [releases EXCEPT ![d] = row] /\ happened' = happened \cup {event}
      /\ UNCHANGED spectating
  BY DEF CommitRelease
<1>2. /\ releases'[d] = row /\ \A e \in DatasetRelease \ {d} : releases'[e] = releases[e]
  BY <1>0, <1>1 DEF ReleasesInv, ReleasesTyped
<1>3. PICK answer \in {"done", "lost"} : Rule(q, answer)
  BY DEF CommitRelease
<1>4. /\ curating' \in [Curation -> [ask : A, at : CurationSteps, row : ReleaseRow(A)]]
      /\ ruling' \in [Curation -> Rulings]
      /\ rowHolder' \in [DatasetRelease -> Curation \cup {NoCuration}]
      /\ curating'[q].ask = ask /\ curating'[q].at = "ended"
      /\ \A r \in Curation \ {q} : curating'[r] = curating[r] /\ ruling'[r] = ruling[r]
      /\ \A e \in DatasetRelease : \A r \in Curation \ {q} : rowHolder[e] = r => rowHolder'[e] = r
  <2>1. answer \in Rulings /\ ReleasesTyped(A)
    BY DEF Rulings, ReleasesInv
  <2> QED BY <1>3, <2>1, RulingsEndCurations
<1>5. \A e \in DatasetRelease \ {d} : ReviewsOf(e)' = ReviewsOf(e)
  BY DEF ReviewsOf
<1>6. ReleasesTyped(A)'
  <2>1. releases' \in [DatasetRelease -> ReleaseRow(A)]
    BY <1>0, <1>1 DEF ReleasesInv, ReleasesTyped
  <2>2. happened' \in SUBSET [ask : A, revision : Nat]
    BY <1>0, <1>1 DEF ReleasesInv, ReleasesTyped
  <2> QED BY <1>1, <1>4, <2>1, <2>2 DEF ReleasesInv, ReleasesTyped
<1>7. RowsAddUp'
  <2>1. ASSUME NEW e \in DatasetRelease, e # d
        PROVE  /\ ~Exists(e)' => releases'[e] = NoRelease /\ ReviewsOf(e)' = {}
               /\ Exists(e)' => /\ AcceptableRelease(releases'[e], ReviewsOf(e)')
                                /\ releases'[e].dataset # "none"
                                /\ releases'[e].revision = Cardinality(ReviewsOf(e)') + BesideIt(releases'[e])
    <3>1. releases'[e] = releases[e] /\ ReviewsOf(e)' = ReviewsOf(e)
      BY <1>2, <1>5, <2>1
    <3> QED BY <3>1 DEF ReleasesInv, RowsAddUp, Exists
  <2>2. Exists(d)'
    BY <1>2 DEF Exists
  <2> QED BY <1>0, <1>2, <2>1, <2>2 DEF RowsAddUp
<1>8. HoldersSee'
  <2>1. ASSUME NEW r \in Curation, r # q, curating[r].at = "holding"
        PROVE  curating[r].ask.release \in DatasetRelease \ {d}
    <3>1. curating[r].ask.release \in DatasetRelease
      BY DEF ReleasesInv, ReleasesTyped, CurationAsks
    <3>2. rowHolder[curating[r].ask.release] = r /\ Exists(curating[r].ask.release)
      BY <2>1 DEF ReleasesInv, HoldersSee
    <3>3. Exists(d) => rowHolder[d] = q
      BY DEF ReleasesInv, HoldersSee
    <3> QED BY <2>1, <3>1, <3>2, <3>3
  <2>2. ASSUME NEW r \in Curation, r # q
        PROVE  /\ curating'[r].at = "holding" =>
                    /\ curating'[r].ask.kind # "create"
                    /\ rowHolder'[curating'[r].ask.release] = r
                    /\ curating'[r].row = releases'[curating'[r].ask.release]
                    /\ releases'[curating'[r].ask.release].status # "absent"
               /\ curating'[r].at = "inserting" => curating'[r].ask.kind = "create"
    <3>1. curating'[r] = curating[r]
      BY <1>4, <2>2
    <3>2. curating[r].at = "inserting" => curating[r].ask.kind = "create"
      BY DEF ReleasesInv, HoldersSee
    <3>3. ASSUME curating[r].at = "holding"
          PROVE  /\ curating[r].ask.kind # "create"
                 /\ rowHolder'[curating[r].ask.release] = r
                 /\ curating[r].row = releases'[curating[r].ask.release]
                 /\ releases'[curating[r].ask.release].status # "absent"
      <4>1. curating[r].ask.release \in DatasetRelease \ {d}
        BY <2>1, <2>2, <3>3
      <4> QED BY <1>2, <1>4, <2>2, <3>3, <4>1 DEF ReleasesInv, HoldersSee, Exists
    <3> QED BY <3>1, <3>2, <3>3
  <2> QED BY <1>4, <2>2 DEF HoldersSee, Exists
<1>9. EarlierHappened'
  <2>1. AskedOf' = AskedOf \cup {ask}
    <3>1. event.ask = ask
      OBVIOUS
    <3> HIDE DEF event
    <3> QED BY <1>1, <3>1 DEF AskedOf
  <2>2. \A e \in DatasetRelease : releases'[e].created \cup releases'[e].published \subseteq AskedOf'
    BY <1>2, <2>1 DEF ReleasesInv, EarlierHappened
  <2>3. \A v \in reviews' : v.ask \in AskedOf'
    BY <2>1 DEF ReleasesInv, EarlierHappened
  <2> QED BY <2>2, <2>3 DEF EarlierHappened
<1>10. ReadersMayGoOn'
  <2>1. ASSUME NEW x \in Spectator, spectating[x].at = "row", NEW e \in spectating[x].release
        PROVE  /\ Exists(e)' /\ spectating[x].row.by = releases'[e].by
               /\ CountedSo(spectating[x].row, ReviewsOf(e)')
    <3>1. /\ Exists(e) /\ spectating[x].row.by = releases[e].by
          /\ CountedSo(spectating[x].row, ReviewsOf(e)) /\ e \in DatasetRelease
      BY <2>1 DEF ReleasesInv, ReadersMayGoOn, ReleasesTyped
    <3>2. CASE e # d
      BY <1>2, <1>5, <3>1, <3>2 DEF Exists
    <3>3. CASE e = d
      <4> DEFINE old == ReviewsOf(d)
                 new == ReviewsOf(d)'
                 seen == spectating[x].row
      <4>1. releases'[d].by = releases[d].by /\ row.by = releases[d].by /\ Exists(d)'
        BY <1>2, <3>1, <3>3 DEF Exists
      <4>2. old \subseteq new /\ IsFiniteSet(new) /\ \A v \in new : v.role \in Role
        <5>1. new \subseteq reviews'
          BY DEF ReviewsOf
        <5>2. \A v \in reviews' : v.role \in Role
          BY DEF ReviewRow
        <5>3. IsFiniteSet(new)
          BY <5>1, FS_Subset
        <5>4. old \subseteq new
          BY DEF ReviewsOf
        <5> QED BY <5>1, <5>2, <5>3, <5>4
      <4>3. Cardinality(new) >= Cardinality(old) /\ Cardinality(new) \in Nat /\ Cardinality(old) \in Nat
        BY <4>2, FS_Subset, FS_CardinalityType
      <4>4. seen.revision \in Nat /\ BesideIt(seen) \in {1, 2}
        <5>1. seen \in ReleaseRow(A)
          BY DEF ReleasesInv, ReleasesTyped
        <5> QED BY <5>1 DEF ReleaseRow, BesideIt
      <4>5. AcceptableRelease(seen, new)
        <5>1. AcceptableRelease(row, new)
          OBVIOUS
        <5>2. seen.by = row.by
          BY <3>1, <3>3, <4>1
        <5>3. seen.status = "PUBLISHED" => {v.role : v \in new} = Role
          BY <3>1, <3>3, <4>2 DEF CountedSo, AcceptableRelease
        <5> QED BY <5>1, <5>2, <5>3 DEF AcceptableRelease
      <4>6. Cardinality(new) >= seen.revision - BesideIt(seen)
        BY <3>1, <3>3, <4>3, <4>4 DEF CountedSo
      <4> QED BY <3>1, <3>3, <4>1, <4>5, <4>6 DEF CountedSo
    <3> QED BY <3>2, <3>3
  <2>2. \A x \in Spectator : spectating[x].at = "seen" =>
          CountedSo(spectating[x].row, spectating[x].reviews)
    BY DEF ReleasesInv, ReadersMayGoOn
  <2> QED BY <1>1, <2>1, <2>2 DEF ReadersMayGoOn
<1>11. ReleasesAddUp'
  <2>1. ASSUME NEW e \in DatasetRelease
        PROVE  {o.revision : o \in {f \in happened' : f.ask.release = e}} = 1..releases'[e].revision
    <3>1. {o.revision : o \in {f \in happened : f.ask.release = e}} = 1..releases[e].revision
      BY DEF ReleasesInv, ReleasesAddUp
    <3>2. CASE e # d
      <4>1. {f \in happened' : f.ask.release = e} = {f \in happened : f.ask.release = e}
        BY <1>1, <3>2
      <4> QED BY <1>2, <3>1, <3>2, <4>1
    <3>3. CASE e = d
      <4>1. {f \in happened' : f.ask.release = d} = {f \in happened : f.ask.release = d} \cup {event}
        BY <1>1
      <4>2. {o.revision : o \in {f \in happened' : f.ask.release = d}} =
              {o.revision : o \in {f \in happened : f.ask.release = d}} \cup {event.revision}
        BY <4>1
      <4>3. 1..(releases[d].revision + 1) = (1..releases[d].revision) \cup {releases[d].revision + 1}
        BY <1>0
      <4>4. event.revision = releases[d].revision + 1 /\ releases'[d].revision = releases[d].revision + 1
        BY <1>2
      <4> HIDE DEF event
      <4> QED BY <3>1, <3>3, <4>2, <4>3, <4>4
    <3> QED BY <3>2, <3>3
  <2>2. ASSUME NEW f \in happened, f.ask.release = d PROVE f.revision # row.revision
    <3>1. f.revision \in 1..releases[d].revision
      BY <1>0, <2>2 DEF ReleasesInv, ReleasesAddUp
    <3> QED BY <1>0, <3>1
  <2>3. \A f, g \in happened' : f.ask.release = g.ask.release /\ f.revision = g.revision => f = g
    <3>1. \A f, g \in happened : f.ask.release = g.ask.release /\ f.revision = g.revision => f = g
      BY DEF ReleasesInv, ReleasesAddUp
    <3>2. event.ask.release = d /\ event.revision = row.revision
      OBVIOUS
    <3> HIDE DEF event
    <3> QED BY <1>1, <2>2, <3>1, <3>2
  <2>4. \A f \in happened' : f.revision = f.ask.expected + 1
    BY <1>1 DEF ReleasesInv, ReleasesAddUp
  <2>5. \A e, f \in DatasetRelease :
          Exists(e)' /\ releases'[e].dataset = releases'[f].dataset => e = f
    <3>1. \A e, f \in DatasetRelease :
            Exists(e) /\ releases[e].dataset = releases[f].dataset => e = f
      BY DEF ReleasesInv, ReleasesAddUp
    <3>2. CASE Exists(d)
      BY <1>2, <3>1, <3>2 DEF Exists
    <3>3. CASE ~Exists(d)
      BY <1>2, <3>1, <3>3 DEF Exists
    <3> QED BY <3>2, <3>3
  <2>6. ASSUME NEW r \in Curation, ruling'[r] \in {"done", "repeated"}
        PROVE  \E f \in happened' : SameCuration(curating'[r].ask, f.ask)
    <3>1. CASE r # q
      <4>1. curating'[r] = curating[r] /\ ruling'[r] = ruling[r]
        BY <1>4, <3>1
      <4>2. PICK f \in happened : SameCuration(curating[r].ask, f.ask)
        BY <2>6, <4>1 DEF ReleasesInv, ReleasesAddUp
      <4> QED BY <1>1, <4>1, <4>2
    <3>2. CASE r = q
      <4>1. SameCuration(ask, ask)
        BY <1>0 DEF SameCuration
      <4>2. event \in happened' /\ event.ask = ask
        BY <1>1
      <4> QED BY <1>4, <3>2, <4>1, <4>2
    <3> QED BY <3>1, <3>2
  <2> QED BY <2>1, <2>3, <2>4, <2>5, <2>6 DEF ReleasesAddUp
<1> HIDE DEF event
<1> QED BY <1>6, <1>7, <1>8, <1>9, <1>10, <1>11 DEF ReleasesInv

LEMMA InsertsKeepReleases ==
  ASSUME NEW A, CurationAsks(A), ReleasesInv(A), NEW q \in Curation, InsertRelease(q)
  PROVE  ReleasesInv(A)'
<1>1. CASE RefuseCuration(q)
  BY <1>1, RefusedCurations
<1>2. CASE ~RefuseCuration(q)
  <2> SUFFICES ASSUME NEW ask, ask = curating[q].ask, NEW d, d = ask.release
               PROVE  ReleasesInv(A)'
    OBVIOUS
  <2> DEFINE row == [status |-> "DRAFT", revision |-> 1, dataset |-> ask.dataset, by |-> ask.by,
                     created |-> {ask}, published |-> {}]
  <2>1. /\ ~Exists(d) /\ \A e \in DatasetRelease : releases[e].dataset # ask.dataset
        /\ CommitRelease(q, row) /\ reviews' = reviews
    BY <1>2 DEF InsertRelease
  <2>2. ask \in A /\ d \in DatasetRelease /\ ask.kind = "create" /\ ask.expected = 0 /\ ask.dataset # "none"
    BY DEF InsertRelease, ReleasesInv, ReleasesTyped, CurationAsks, HoldersSee
  <2>3. releases[d] = NoRelease /\ ReviewsOf(d) = {}
    BY <2>1, <2>2 DEF ReleasesInv, RowsAddUp
  <2>4. row \in ReleaseRow(A) /\ row.revision = releases[d].revision + 1 /\ row.revision = ask.expected + 1
        /\ row.status # "absent" /\ row.dataset # "none"
    BY <2>2, <2>3 DEF ReleaseRow, NoRelease
  <2>5. ReviewsOf(d)' = {} /\ Cardinality({}) = 0
    BY <2>1, <2>3, FS_EmptySet DEF ReviewsOf
  <2>6. /\ AcceptableRelease(row, ReviewsOf(d)')
        /\ row.revision = Cardinality(ReviewsOf(d)') + BesideIt(row)
    BY <2>5 DEF AcceptableRelease, BesideIt
  <2>7. /\ reviews' \in SUBSET ReviewRow(A) /\ IsFiniteSet(reviews') /\ reviews \subseteq reviews'
        /\ reviews' \ reviews = {} /\ row.created \cup row.published \subseteq AskedOf \cup {ask}
        /\ row.dataset = ask.dataset
    BY <2>1 DEF ReleasesInv, ReleasesTyped
  <2> HIDE DEF row
  <2> QED BY <2>1, <2>4, <2>6, <2>7, CommitsKeepReleases
<1> QED BY <1>1, <1>2

\* What a review makes of a row.
LEMMA ReviewedRow ==
  ASSUME NEW A, NEW row \in ReleaseRow(A), NEW next, next = [row EXCEPT !.revision = @ + 1]
  PROVE  /\ next \in ReleaseRow(A) /\ next.revision = row.revision + 1
         /\ next.dataset = row.dataset /\ next.by = row.by /\ next.created = row.created
         /\ next.status = row.status /\ next.published = row.published
<1> DEFINE S == {"absent", "DRAFT", "PUBLISHED"}
           D == {a.dataset : a \in A} \cup {"none"}
           B == {a.by : a \in A} \cup {"none"}
           C == SUBSET A
<1>1. ReleaseRow(A) = [status : S, revision : Nat, dataset : D, by : B, created : C, published : C]
  BY DEF ReleaseRow
<1> HIDE DEF S, D, B, C
<1>2. row.revision + 1 \in Nat
  BY <1>1
<1> QED BY <1>1, <1>2

\* What a row that is held says.
LEMMA HeldRows ==
  ASSUME NEW A, CurationAsks(A), ReleasesInv(A), NEW q \in Curation, curating[q].at = "holding",
         NEW ask, ask = curating[q].ask, NEW d, d = ask.release, NEW row, row = curating[q].row
  PROVE  /\ ask \in A /\ d \in DatasetRelease /\ row = releases[d] /\ row \in ReleaseRow(A)
         /\ Exists(d) /\ row.status # "absent" /\ row.dataset # "none" /\ row.revision \in Nat
         /\ AcceptableRelease(row, ReviewsOf(d))
         /\ row.revision = Cardinality(ReviewsOf(d)) + BesideIt(row)
         /\ row.created \cup row.published \subseteq AskedOf /\ IsFiniteSet(ReviewsOf(d))
<1>1. ask \in A /\ d \in DatasetRelease
  BY DEF ReleasesInv, ReleasesTyped, CurationAsks
<1>2. row = releases[d] /\ Exists(d)
  BY DEF ReleasesInv, HoldersSee
<1>3. row \in ReleaseRow(A) /\ row.revision \in Nat
  <2>1. row \in ReleaseRow(A)
    BY <1>1, <1>2 DEF ReleasesInv, ReleasesTyped
  <2> QED BY <2>1 DEF ReleaseRow
<1>4. row.created \cup row.published \subseteq AskedOf
  BY <1>1, <1>2 DEF ReleasesInv, EarlierHappened
<1>5. IsFiniteSet(ReviewsOf(d))
  BY FS_Subset DEF ReleasesInv, ReleasesTyped, ReviewsOf
<1> QED BY <1>1, <1>2, <1>3, <1>4, <1>5 DEF ReleasesInv, RowsAddUp, Exists

LEMMA ReviewsKeepReleases ==
  ASSUME NEW A, CurationAsks(A), ReleasesInv(A), NEW q \in Curation, Review(q)
  PROVE  ReleasesInv(A)'
<1> SUFFICES ASSUME NEW ask, ask = curating[q].ask, NEW d, d = ask.release,
                    NEW row, row = curating[q].row
             PROVE  ReleasesInv(A)'
  OBVIOUS
<1> DEFINE under == {v.ask : v \in {u \in ReviewsOf(d) : u.ask.key = ask.key}}
           fresh == [release |-> d, by |-> ask.by, role |-> ask.role, ask |-> ask]
           next == [row EXCEPT !.revision = @ + 1]
<1>0. /\ ask \in A /\ d \in DatasetRelease /\ row = releases[d] /\ row \in ReleaseRow(A)
      /\ Exists(d) /\ row.status # "absent" /\ row.dataset # "none" /\ row.revision \in Nat
      /\ AcceptableRelease(row, ReviewsOf(d))
      /\ row.revision = Cardinality(ReviewsOf(d)) + BesideIt(row)
      /\ row.created \cup row.published \subseteq AskedOf /\ IsFiniteSet(ReviewsOf(d))
  BY HeldRows DEF Review
<1>1. CASE RefuseCuration(q)
  BY <1>1, RefusedCurations
<1>2. CASE RepeatCuration(q, under)
  <2>1. under \in SUBSET AskedOf
    BY DEF ReleasesInv, EarlierHappened, ReviewsOf
  <2> QED BY <1>2, <2>1, RepeatedCurations
<1>3. CASE /\ MayReview(ask, row) /\ ReviewFits(ask)
           /\ reviews' = reviews \cup {fresh} /\ CommitRelease(q, next)
  <2>1. /\ next \in ReleaseRow(A) /\ next.revision = row.revision + 1 /\ next.status = row.status
        /\ next.dataset = row.dataset /\ next.by = row.by /\ next.created = row.created
        /\ next.published = row.published
    <3>1. next = [row EXCEPT !.revision = @ + 1]
      OBVIOUS
    <3> HIDE DEF next
    <3> QED BY <1>0, <3>1, ReviewedRow
  <2>2. row.status = "DRAFT" /\ row.revision = ask.expected /\ ask.by # row.by
    BY <1>3 DEF MayReview
  <2>3. fresh \in ReviewRow(A)
    BY <1>0 DEF ReviewRow, CurationAsks
  <2>4. reviews' \in SUBSET ReviewRow(A) /\ IsFiniteSet(reviews')
    <3> HIDE DEF fresh
    <3>1. IsFiniteSet(reviews \cup {fresh})
      BY FS_AddElement DEF ReleasesInv, ReleasesTyped
    <3> QED BY <1>3, <2>3, <3>1 DEF ReleasesInv, ReleasesTyped
  <2>5. \A v \in ReviewsOf(d) : v.by # ask.by /\ v.role # ask.role
    BY <1>3 DEF ReviewFits
  <2>6. ReviewsOf(d)' = ReviewsOf(d) \cup {fresh} /\ fresh \notin ReviewsOf(d)
    BY <1>3, <2>5 DEF ReviewsOf
  <2>7. fresh.by = ask.by /\ fresh.role = ask.role /\ fresh.release = d /\ fresh.ask = ask
    OBVIOUS
  <2> HIDE DEF fresh, next
  <2>8. Cardinality(ReviewsOf(d)') = Cardinality(ReviewsOf(d)) + 1
    BY <1>0, <2>6, FS_AddElement
  <2>9. AcceptableRelease(next, ReviewsOf(d)')
    BY <1>0, <2>1, <2>2, <2>5, <2>6, <2>7 DEF AcceptableRelease
  <2>10. next.revision = Cardinality(ReviewsOf(d)') + BesideIt(next)
    BY <1>0, <2>1, <2>8, FS_CardinalityType DEF BesideIt
  <2>11. /\ reviews \subseteq reviews' /\ \A v \in reviews' \ reviews : v.release = d /\ v.ask = ask
    BY <1>3, <2>7
  <2>12. next.revision = releases[d].revision + 1 /\ next.revision = ask.expected + 1
    BY <1>0, <2>1, <2>2
  <2>13. next.status # "absent" /\ next.dataset # "none" /\ next.by = releases[d].by
         /\ next.dataset = releases[d].dataset /\ next.created \cup next.published \subseteq AskedOf \cup {ask}
    BY <1>0, <2>1
  <2>14. curating[q].at = "holding" /\ CommitRelease(q, next)
    BY <1>3 DEF Review
  <2> QED BY <1>0, <2>1, <2>4, <2>9, <2>10, <2>11, <2>12, <2>13, <2>14, CommitsKeepReleases
<1> QED BY <1>1, <1>2, <1>3 DEF Review

LEMMA PublicationsKeepReleases ==
  ASSUME NEW A, CurationAsks(A), ReleasesInv(A), NEW q \in Curation, Publish(q)
  PROVE  ReleasesInv(A)'
<1> SUFFICES ASSUME NEW ask, ask = curating[q].ask, NEW d, d = ask.release,
                    NEW row, row = curating[q].row
             PROVE  ReleasesInv(A)'
  OBVIOUS
<1> DEFINE next == [row EXCEPT !.status = "PUBLISHED", !.revision = @ + 1, !.published = {ask}]
<1>0. /\ ask \in A /\ d \in DatasetRelease /\ row = releases[d] /\ row \in ReleaseRow(A)
      /\ Exists(d) /\ row.status # "absent" /\ row.dataset # "none" /\ row.revision \in Nat
      /\ AcceptableRelease(row, ReviewsOf(d))
      /\ row.revision = Cardinality(ReviewsOf(d)) + BesideIt(row)
      /\ row.created \cup row.published \subseteq AskedOf /\ IsFiniteSet(ReviewsOf(d))
  BY HeldRows DEF Publish
<1>1. CASE RefuseCuration(q)
  BY <1>1, RefusedCurations
<1>2. CASE RepeatCuration(q, row.published)
  BY <1>0, <1>2, RepeatedCurations
<1>3. CASE /\ row.status # "PUBLISHED" /\ row.revision = ask.expected /\ RolesOf(d) = Role
           /\ CommitRelease(q, next) /\ reviews' = reviews
  <2>1. /\ next \in ReleaseRow(A) /\ next.revision = row.revision + 1 /\ next.status = "PUBLISHED"
        /\ next.dataset = row.dataset /\ next.by = row.by /\ next.created = row.created
        /\ next.published = {ask}
    <3>1. next = [status |-> "PUBLISHED", revision |-> row.revision + 1, dataset |-> row.dataset,
                  by |-> row.by, created |-> row.created, published |-> {ask}]
      <4> DEFINE S == {"absent", "DRAFT", "PUBLISHED"}
                 D == {a.dataset : a \in A} \cup {"none"}
                 B == {a.by : a \in A} \cup {"none"}
                 C == SUBSET A
      <4>1. row \in [status : S, revision : Nat, dataset : D, by : B, created : C, published : C]
        BY <1>0 DEF ReleaseRow
      <4> HIDE DEF S, D, B, C
      <4>2. next = [row EXCEPT !.status = "PUBLISHED", !.revision = @ + 1, !.published = {ask}]
        OBVIOUS
      <4> HIDE DEF next
      <4> QED BY ONLY <4>1, <4>2
    <3>2. row.revision + 1 \in Nat
      BY <1>0
    <3> HIDE DEF next
    <3>3. next \in ReleaseRow(A)
      BY <1>0, <3>1, <3>2 DEF ReleaseRow
    <3> QED BY <3>1, <3>3
  <2> HIDE DEF next
  <2>2. ReviewsOf(d)' = ReviewsOf(d)
    BY <1>3 DEF ReviewsOf
  <2>3. AcceptableRelease(next, ReviewsOf(d)')
    BY <1>0, <1>3, <2>1, <2>2 DEF AcceptableRelease, RolesOf
  <2>4. next.revision = Cardinality(ReviewsOf(d)') + BesideIt(next)
    BY <1>0, <1>3, <2>1, <2>2, FS_CardinalityType DEF BesideIt
  <2>5. reviews' \in SUBSET ReviewRow(A) /\ IsFiniteSet(reviews') /\ reviews \subseteq reviews'
        /\ reviews' \ reviews = {}
    BY <1>3 DEF ReleasesInv, ReleasesTyped
  <2>6. /\ next.revision = releases[d].revision + 1 /\ next.revision = ask.expected + 1
        /\ next.status # "absent" /\ next.dataset # "none" /\ next.by = releases[d].by
        /\ next.dataset = releases[d].dataset
        /\ next.created \cup next.published \subseteq AskedOf \cup {ask}
    BY <1>0, <1>3, <2>1
  <2>7. curating[q].at = "holding"
    BY DEF Publish
  <2> QED BY <1>0, <1>3, <2>1, <2>3, <2>4, <2>5, <2>6, <2>7, CommitsKeepReleases
<1> QED BY <1>1, <1>2, <1>3 DEF Publish
----------------------------------------------------------------------------
\* A reader moves and nobody else.
LEMMA SightsKeepReleases ==
  ASSUME NEW A, CurationAsks(A), ReleasesInv(A), NEW x \in Spectator,
         SeeRow(x) \/ SeeReviews(x) \/ SeeAgain(x)
  PROVE  ReleasesInv(A)'
<1> DEFINE Sights == [at : {"idle", "row", "seen"}, release : SUBSET DatasetRelease,
                      row : ReleaseRow(A), reviews : SUBSET ReviewRow(A)]
<1>0. UNCHANGED <<releases, reviews, rowHolder, happened, curating, ruling>>
      /\ spectating \in [Spectator -> Sights] /\ releases \in [DatasetRelease -> ReleaseRow(A)]
      /\ reviews \in SUBSET ReviewRow(A)
  BY DEF SeeRow, SeeReviews, SeeAgain, ReleasesInv, ReleasesTyped
<1>1. NoRelease \in ReleaseRow(A)
  BY DEF NoRelease, ReleaseRow
<1>2. /\ spectating' \in [Spectator -> Sights]
      /\ \A y \in Spectator \ {x} : spectating'[y] = spectating[y]
      /\ spectating'[x].at = "row" =>
           \A d \in spectating'[x].release :
             /\ Exists(d) /\ spectating'[x].row.by = releases[d].by
             /\ CountedSo(spectating'[x].row, ReviewsOf(d))
      /\ spectating'[x].at = "seen" => CountedSo(spectating'[x].row, spectating'[x].reviews)
  <2>1. CASE SeeRow(x)
    <3>1. PICK d \in DatasetRelease :
            /\ Exists(d)
            /\ spectating' = [spectating EXCEPT ![x] = [at |-> "row", release |-> {d},
                                                        row |-> releases[d], reviews |-> {}]]
      BY <2>1 DEF SeeRow
    <3>2. CountedSo(releases[d], ReviewsOf(d))
      <4>1. /\ AcceptableRelease(releases[d], ReviewsOf(d))
            /\ releases[d].revision = Cardinality(ReviewsOf(d)) + BesideIt(releases[d])
        BY <3>1 DEF ReleasesInv, RowsAddUp
      <4>2. Cardinality(ReviewsOf(d)) \in Nat
        BY FS_Subset, FS_CardinalityType DEF ReleasesInv, ReleasesTyped, ReviewsOf
      <4> QED BY <4>1, <4>2 DEF CountedSo, BesideIt
    <3>3. [at |-> "row", release |-> {d}, row |-> releases[d], reviews |-> {}] \in Sights
      BY <1>0
    <3> QED BY <1>0, <3>1, <3>2, <3>3
  <2>2. CASE SeeReviews(x)
    <3>1. PICK d \in spectating[x].release :
            spectating' = [spectating EXCEPT ![x].at = "seen", ![x].reviews = ReviewsOf(d)]
      BY <2>2 DEF SeeReviews
    <3>2. CountedSo(spectating[x].row, ReviewsOf(d))
      BY <2>2 DEF SeeReviews, ReleasesInv, ReadersMayGoOn
    <3>3. ReviewsOf(d) \in SUBSET ReviewRow(A)
      BY <1>0 DEF ReviewsOf
    <3> QED BY <1>0, <3>1, <3>2, <3>3
  <2>3. CASE SeeAgain(x)
    BY <1>0, <1>1, <2>3 DEF SeeAgain
  <2> QED BY <2>1, <2>2, <2>3
<1>3. ReadersMayGoOn'
  <2>1. ASSUME NEW y \in Spectator
        PROVE  /\ spectating'[y].at = "row" =>
                    \A d \in spectating'[y].release :
                      /\ Exists(d) /\ spectating'[y].row.by = releases[d].by
                      /\ CountedSo(spectating'[y].row, ReviewsOf(d))
               /\ spectating'[y].at = "seen" => CountedSo(spectating'[y].row, spectating'[y].reviews)
    <3>1. CASE y = x
      BY <1>2, <3>1
    <3>2. CASE y # x
      BY <1>2, <3>2 DEF ReleasesInv, ReadersMayGoOn
    <3> QED BY <3>1, <3>2
  <2>2. \A d : (Exists(d)' <=> Exists(d)) /\ ReviewsOf(d)' = ReviewsOf(d)
    BY <1>0 DEF Exists, ReviewsOf
  <2> QED BY <1>0, <2>1, <2>2 DEF ReadersMayGoOn
<1>4. ReleasesTyped(A)'
  BY <1>0, <1>2 DEF ReleasesInv, ReleasesTyped
<1>5. RowsAddUp' /\ HoldersSee' /\ EarlierHappened' /\ ReleasesAddUp'
  BY <1>0 DEF ReleasesInv, RowsAddUp, HoldersSee, EarlierHappened, ReleasesAddUp, Exists, ReviewsOf, AskedOf
<1> QED BY <1>3, <1>4, <1>5 DEF ReleasesInv

LEMMA ReleasesStep ==
  ASSUME NEW A, CurationAsks(A), ReleasesInv(A), [ReleasesNext]_releaseVars
  PROVE  ReleasesInv(A)'
<1>1. CASE UNCHANGED releaseVars
  <2>1. ReleasesTyped(A)' /\ RowsAddUp' /\ HoldersSee'
    BY <1>1 DEF releaseVars, ReleasesInv, ReleasesTyped, RowsAddUp, HoldersSee, Exists, ReviewsOf
  <2>2. EarlierHappened' /\ ReleasesAddUp'
    BY <1>1 DEF releaseVars, ReleasesInv, EarlierHappened, ReleasesAddUp, Exists, AskedOf
  <2>3. ReadersMayGoOn'
    BY <1>1 DEF releaseVars, ReleasesInv, ReadersMayGoOn, Exists, ReviewsOf
  <2> QED BY <2>1, <2>2, <2>3 DEF ReleasesInv
<1>2. ASSUME NEW q \in Curation, CurationDrops(q) PROVE ReleasesInv(A)'
  BY <1>2, RefusedCurations DEF CurationDrops
<1> QED BY <1>1, <1>2, LookUpsKeepReleases, InsertsKeepReleases, HoldsKeepReleases, ReviewsKeepReleases,
       PublicationsKeepReleases, SightsKeepReleases DEF ReleasesNext

LEMMA ReleasesInvSuffices ==
  ASSUME NEW A, ReleasesInv(A) PROVE ReleaseIsSound
<1>1. ASSUME NEW d \in DatasetRelease PROVE AcceptableRelease(releases[d], ReviewsOf(d))
  BY DEF ReleasesInv, RowsAddUp, NoRelease, AcceptableRelease
<1>2. SightsAreValid
  BY DEF ReleasesInv, ReadersMayGoOn, SightsAreValid, CountedSo, BesideIt
<1> QED BY <1>1, <1>2 DEF ReleasesInv, ReleaseIsSound

\* Nobody writes to a release that is published.
LEMMA PublishedReleasesStay ==
  ASSUME NEW A, CurationAsks(A), ReleasesInv(A), [ReleasesNext]_releaseVars,
         NEW d \in DatasetRelease, releases[d].status = "PUBLISHED"
  PROVE  releases'[d] = releases[d] /\ ReviewsOf(d)' = ReviewsOf(d)
<1>1. CASE releases' = releases /\ reviews' = reviews
  BY <1>1 DEF ReviewsOf
<1>2. ASSUME NEW q \in Curation, NEW ask, ask = curating[q].ask, NEW row, CommitRelease(q, row),
             ask.release \in DatasetRelease, releases[ask.release].status # "PUBLISHED",
             \A v \in reviews' \ reviews : v.release = ask.release, reviews \subseteq reviews'
      PROVE  releases'[d] = releases[d] /\ ReviewsOf(d)' = ReviewsOf(d)
  <2>1. d # ask.release /\ releases' = [releases EXCEPT ![ask.release] = row]
    BY <1>2 DEF CommitRelease
  <2> QED BY <1>2, <2>1 DEF ReviewsOf, ReleasesInv, ReleasesTyped
<1>3. ASSUME NEW q \in Curation PROVE curating[q].ask.release \in DatasetRelease
  BY DEF ReleasesInv, ReleasesTyped, CurationAsks
<1>4. ASSUME NEW q \in Curation, LookUpRelease(q) \/ HoldRelease(q) \/ CurationDrops(q)
      PROVE  releases' = releases /\ reviews' = reviews
  BY <1>4 DEF LookUpRelease, HoldRelease, CurationDrops, RefuseCuration, RepeatCuration
<1>5. ASSUME NEW q \in Curation, InsertRelease(q)
      PROVE  releases'[d] = releases[d] /\ ReviewsOf(d)' = ReviewsOf(d)
  <2>1. CASE RefuseCuration(q)
    BY <1>1, <2>1 DEF RefuseCuration
  <2>2. CASE ~RefuseCuration(q)
    <3> SUFFICES ASSUME NEW ask, ask = curating[q].ask
                 PROVE  releases'[d] = releases[d] /\ ReviewsOf(d)' = ReviewsOf(d)
      OBVIOUS
    <3> DEFINE row == [status |-> "DRAFT", revision |-> 1, dataset |-> ask.dataset, by |-> ask.by,
                       created |-> {ask}, published |-> {}]
    <3>1. ~Exists(ask.release) /\ CommitRelease(q, row) /\ reviews' = reviews
      BY <1>5, <2>2 DEF InsertRelease
    <3>2. releases[ask.release].status # "PUBLISHED"
      BY <3>1 DEF Exists
    <3> HIDE DEF row
    <3> QED BY <1>2, <1>3, <3>1, <3>2
  <2> QED BY <2>1, <2>2
<1>6. ASSUME NEW q \in Curation, Review(q)
      PROVE  releases'[d] = releases[d] /\ ReviewsOf(d)' = ReviewsOf(d)
  <2>1. CASE releases' = releases /\ reviews' = reviews
    BY <1>1, <2>1
  <2>2. CASE ~(releases' = releases /\ reviews' = reviews)
    <3> SUFFICES ASSUME NEW ask, ask = curating[q].ask, NEW row, row = curating[q].row
                 PROVE  releases'[d] = releases[d] /\ ReviewsOf(d)' = ReviewsOf(d)
      OBVIOUS
    <3> DEFINE next == [row EXCEPT !.revision = @ + 1]
               fresh == [release |-> ask.release, by |-> ask.by, role |-> ask.role, ask |-> ask]
    <3>1. MayReview(ask, row) /\ CommitRelease(q, next) /\ reviews' = reviews \cup {fresh}
      BY <1>6, <2>2 DEF Review, RefuseCuration, RepeatCuration
    <3>2. row = releases[ask.release]
      BY <1>6 DEF Review, ReleasesInv, HoldersSee
    <3>3. releases[ask.release].status # "PUBLISHED"
      BY <3>1, <3>2 DEF MayReview
    <3>4. \A v \in reviews' \ reviews : v.release = ask.release
      BY <3>1
    <3> HIDE DEF next
    <3> QED BY <1>2, <1>3, <3>1, <3>3, <3>4
  <2> QED BY <2>1, <2>2
<1>7. ASSUME NEW q \in Curation, Publish(q)
      PROVE  releases'[d] = releases[d] /\ ReviewsOf(d)' = ReviewsOf(d)
  <2>1. CASE releases' = releases /\ reviews' = reviews
    BY <1>1, <2>1
  <2>2. CASE ~(releases' = releases /\ reviews' = reviews)
    <3> SUFFICES ASSUME NEW ask, ask = curating[q].ask, NEW row, row = curating[q].row
                 PROVE  releases'[d] = releases[d] /\ ReviewsOf(d)' = ReviewsOf(d)
      OBVIOUS
    <3> DEFINE next == [row EXCEPT !.status = "PUBLISHED", !.revision = @ + 1, !.published = {ask}]
    <3>1. row.status # "PUBLISHED" /\ CommitRelease(q, next) /\ reviews' = reviews
      BY <1>7, <2>2 DEF Publish, RefuseCuration, RepeatCuration
    <3>2. row = releases[ask.release]
      BY <1>7 DEF Publish, ReleasesInv, HoldersSee
    <3> HIDE DEF next
    <3> QED BY <1>2, <1>3, <3>1, <3>2
  <2> QED BY <2>1, <2>2
<1>8. ASSUME NEW x \in Spectator, SeeRow(x) \/ SeeReviews(x) \/ SeeAgain(x)
      PROVE  releases' = releases /\ reviews' = reviews
  BY <1>8 DEF SeeRow, SeeReviews, SeeAgain
<1> QED BY <1>1, <1>4, <1>5, <1>6, <1>7, <1>8 DEF ReleasesNext, releaseVars

\* Releases are what two reviewers in two roles have accepted, each revision is one
\* event, and what is put together of a row and of later reviews is a release the domain
\* accepts: for any releases, requests and readers.  dataset_release_store.py:38-206.
THEOREM ReleasesAlwaysSound ==
  ASSUME NEW A, CurationAsks(A)
  PROVE  ReleasesStart(A) /\ [][ReleasesNext]_releaseVars => []ReleaseIsSound
<1>1. ReleasesStart(A) => ReleasesInv(A)
  BY ReleasesBegin
<1>2. ReleasesInv(A) /\ [ReleasesNext]_releaseVars => ReleasesInv(A)'
  BY ReleasesStep
<1>3. ReleasesInv(A) => ReleaseIsSound
  BY ReleasesInvSuffices
<1> QED BY <1>1, <1>2, <1>3, PTL

\* What is published is never changed again, nor are its reviews.
\* dataset_release_store.py:87-193.
THEOREM PublishedReleasesAreKept ==
  ASSUME NEW A, CurationAsks(A)
  PROVE  ReleasesStart(A) /\ [][ReleasesNext]_releaseVars => PublishedStays
<1>1. ReleasesStart(A) => ReleasesInv(A)
  BY ReleasesBegin
<1>2. ReleasesInv(A) /\ [ReleasesNext]_releaseVars => ReleasesInv(A)'
  BY ReleasesStep
<1>3. ReleasesInv(A) /\ [ReleasesNext]_releaseVars =>
        [\A d \in DatasetRelease :
           releases[d].status = "PUBLISHED" =>
             releases'[d] = releases[d] /\ ReviewsOf(d)' = ReviewsOf(d)]_releaseVars
  BY PublishedReleasesStay
<1> QED BY <1>1, <1>2, <1>3, PTL DEF PublishedStays

----------------------------------------------------------------------------
(* Workspaces.  A request that found a workspace holds its row until it ends, *)
(* one that found none holds nothing and meets the indexes.                  *)

UpsertSteps == {"idle", "locking", "applying", "recovering", "ended"}
UpsertReplies == [how : {"none", "done", "lost", "repeated", "refused"}, revision : Nat]

WorkspacesTyped(A) ==
  /\ workspaces \in [Workspace -> [name : {a.name : a \in A} \cup {"none"},
                                   content : {a.content : a \in A} \cup {"none"},
                                   revision : Nat]]
  /\ workspaceHolder \in [Workspace -> Upsert \cup {NoUpsert}]
  /\ upserts \in SUBSET [ask : A, revision : Nat] /\ IsFiniteSet(upserts)
  /\ upserting \in [Upsert -> [ask : A, at : UpsertSteps, seen : Nat]]
  /\ upsertReply \in [Upsert -> UpsertReplies]

\* A workspace without a revision has no name, one with a revision has.
NamesAreGiven ==
  \A w \in Workspace : IF workspaces[w].revision = 0 THEN workspaces[w] = Unnamed
                       ELSE workspaces[w].name # "none"

\* Who is about to apply a change read the revision it expects, and if there
\* was one the row is its own and still what it was.
AppliersHold ==
  \A u \in Upsert : upserting[u].at = "applying" =>
    /\ upserting[u].seen = upserting[u].ask.expected
    /\ upserting[u].seen # 0 =>
         /\ workspaceHolder[upserting[u].ask.workspace] = u
         /\ workspaces[upserting[u].ask.workspace].revision = upserting[u].seen

WorkspacesInv(A) ==
  WorkspacesTyped(A) /\ NamesAreGiven /\ AppliersHold /\ HistoryIsWhole /\ WorkspacesAreTold

\* The first state, whatever requests of A are made.
WorkspacesStart(A) ==
  WorkspacesInit /\ upserting \in [Upsert -> [ask : A, at : {"idle"}, seen : {0}]]
----------------------------------------------------------------------------
LEMMA WorkspacesBegin ==
  ASSUME NEW A, WorkspacesStart(A) PROVE WorkspacesInv(A)
<1>1. WorkspacesTyped(A)
  <2>1. IsFiniteSet({})
    BY FS_EmptySet
  <2> QED BY <2>1 DEF WorkspacesStart, WorkspacesInit, WorkspacesTyped, Unnamed, UpsertSteps, UpsertReplies
<1>2. NamesAreGiven /\ AppliersHold /\ WorkspacesAreTold
  BY DEF WorkspacesStart, WorkspacesInit, NamesAreGiven, AppliersHold, WorkspacesAreTold, Unnamed
<1>3. HistoryIsWhole
  <2>1. ASSUME NEW w \in Workspace PROVE {o \in upserts : o.ask.workspace = w} = {}
    BY DEF WorkspacesStart, WorkspacesInit
  <2>2. Cardinality({}) = 0 /\ 1..0 = {}
    BY FS_EmptySet
  <2> QED BY <2>1, <2>2 DEF WorkspacesStart, WorkspacesInit, HistoryIsWhole, Unnamed
<1> QED BY <1>1, <1>2, <1>3 DEF WorkspacesInv

\* A step of one request that writes neither workspaces nor operations: it may
\* release what it holds, move on, and hear something.
UpsertMoves(A, u) ==
  /\ UNCHANGED <<workspaces, upserts>>
  /\ upserting' \in [Upsert -> [ask : A, at : UpsertSteps, seen : Nat]]
  /\ upsertReply' \in [Upsert -> UpsertReplies]
  /\ workspaceHolder' \in [Workspace -> Upsert \cup {NoUpsert}]
  /\ upserting'[u].ask = upserting[u].ask
  /\ \A v \in Upsert \ {u} : upserting'[v] = upserting[v] /\ upsertReply'[v] = upsertReply[v]
  /\ \A w \in Workspace : \A v \in Upsert \ {u} : workspaceHolder[w] = v => workspaceHolder'[w] = v

\* Nothing to fear of such a step but what the request itself now relies on.
LEMMA UpsertMovesKeep ==
  ASSUME NEW A, UpsertAsks(A), WorkspacesInv(A), NEW u \in Upsert, UpsertMoves(A, u),
         upserting'[u].at = "applying" =>
           /\ upserting'[u].seen = upserting[u].ask.expected
           /\ upserting'[u].seen # 0 =>
                /\ workspaceHolder'[upserting[u].ask.workspace] = u
                /\ workspaces[upserting[u].ask.workspace].revision = upserting'[u].seen,
         upsertReply'[u].how \in {"done", "repeated"} =>
           [ask |-> upserting[u].ask, revision |-> upsertReply'[u].revision] \in upserts
  PROVE  WorkspacesInv(A)'
<1>1. WorkspacesTyped(A)'
  BY DEF WorkspacesInv, WorkspacesTyped, UpsertMoves
<1>2. NamesAreGiven'
  BY DEF WorkspacesInv, NamesAreGiven, UpsertMoves
<1>3. AppliersHold'
  <2>1. ASSUME NEW v \in Upsert, v # u, upserting'[v].at = "applying"
        PROVE  /\ upserting'[v].seen = upserting'[v].ask.expected
               /\ upserting'[v].seen # 0 =>
                    /\ workspaceHolder'[upserting'[v].ask.workspace] = v
                    /\ workspaces'[upserting'[v].ask.workspace].revision = upserting'[v].seen
    <3>1. upserting'[v] = upserting[v] /\ upserting[v].ask.workspace \in Workspace
      BY <2>1 DEF UpsertMoves, UpsertAsks, WorkspacesInv, WorkspacesTyped
    <3> QED BY <2>1, <3>1 DEF WorkspacesInv, AppliersHold, UpsertMoves
  <2> QED BY <2>1 DEF AppliersHold, UpsertMoves
<1>4. HistoryIsWhole'
  BY DEF WorkspacesInv, HistoryIsWhole, UpsertMoves
<1>5. WorkspacesAreTold'
  BY DEF WorkspacesInv, WorkspacesAreTold, UpsertMoves
<1> QED BY <1>1, <1>2, <1>3, <1>4, <1>5 DEF WorkspacesInv

\* An answer ends the request and releases what it held.
LEMMA AnswersEndUpserts ==
  ASSUME NEW A, WorkspacesTyped(A), NEW u \in Upsert, NEW answer \in UpsertReplies,
         AnswerUpsert(u, answer)
  PROVE  /\ upserting' \in [Upsert -> [ask : A, at : UpsertSteps, seen : Nat]]
         /\ upsertReply' \in [Upsert -> UpsertReplies]
         /\ workspaceHolder' \in [Workspace -> Upsert \cup {NoUpsert}]
         /\ upserting'[u].ask = upserting[u].ask /\ upserting'[u].at = "ended"
         /\ upsertReply'[u] = answer
         /\ \A v \in Upsert \ {u} : upserting'[v] = upserting[v] /\ upsertReply'[v] = upsertReply[v]
         /\ \A w \in Workspace : \A v \in Upsert \ {u} :
              workspaceHolder[w] = v => workspaceHolder'[w] = v
  BY DEF WorkspacesTyped, AnswerUpsert, UpsertSteps

LEMMA RefusalsAreReplies ==
  /\ [how |-> "refused", revision |-> 0] \in UpsertReplies
  /\ \A n \in Nat : \A how \in {"done", "lost", "repeated"} : [how |-> how, revision |-> n] \in UpsertReplies
  BY DEF UpsertReplies

LEMMA RefusedUpserts ==
  ASSUME NEW A, UpsertAsks(A), WorkspacesInv(A), NEW u \in Upsert, RefuseUpsert(u),
         UNCHANGED <<workspaces, upserts>>
  PROVE  WorkspacesInv(A)'
<1>1. AnswerUpsert(u, [how |-> "refused", revision |-> 0]) /\ WorkspacesTyped(A)
  BY DEF RefuseUpsert, WorkspacesInv
<1>2. UpsertMoves(A, u) /\ upserting'[u].at = "ended"
      /\ upsertReply'[u] = [how |-> "refused", revision |-> 0]
  BY <1>1, AnswersEndUpserts, RefusalsAreReplies DEF UpsertMoves
<1>3. upsertReply'[u].how \notin {"done", "repeated"} /\ upserting'[u].at # "applying"
  BY <1>2
<1> QED BY <1>2, <1>3, UpsertMovesKeep

LEMMA RepeatedUpserts ==
  ASSUME NEW A, UpsertAsks(A), WorkspacesInv(A), NEW u \in Upsert, ExistingResult(u),
         UNCHANGED <<workspaces, upserts>>
  PROVE  WorkspacesInv(A)'
<1>1. PICK o \in UpsertUnder(upserting[u].ask.key) :
        IF UpsertHash(o.ask) = UpsertHash(upserting[u].ask)
        THEN AnswerUpsert(u, [how |-> "repeated", revision |-> o.revision])
        ELSE RefuseUpsert(u)
  BY DEF ExistingResult
<1>2. CASE UpsertHash(o.ask) # UpsertHash(upserting[u].ask)
  BY <1>1, <1>2, RefusedUpserts
<1>3. CASE UpsertHash(o.ask) = UpsertHash(upserting[u].ask)
  <2>1. o \in upserts /\ o \in [ask : A, revision : Nat] /\ o.ask \in A /\ upserting[u].ask \in A
        /\ o.ask.key = upserting[u].ask.key
    BY <1>1 DEF WorkspacesInv, WorkspacesTyped, UpsertUnder
  <2>2. o.ask = upserting[u].ask
    <3>1. /\ o.ask.workspace = upserting[u].ask.workspace /\ o.ask.name = upserting[u].ask.name
          /\ o.ask.content = upserting[u].ask.content
          /\ o.ask.expected = upserting[u].ask.expected
      BY <1>3 DEF UpsertHash
    <3> QED BY <2>1, <3>1 DEF UpsertAsks
  <2>3. [ask |-> upserting[u].ask, revision |-> o.revision] \in upserts
    BY <2>1, <2>2
  <2>4. AnswerUpsert(u, [how |-> "repeated", revision |-> o.revision]) /\ WorkspacesTyped(A)
        /\ o.revision \in Nat
    BY <1>1, <1>3, <2>1 DEF WorkspacesInv
  <2>5. [how |-> "repeated", revision |-> o.revision] \in UpsertReplies
    BY <2>4, RefusalsAreReplies
  <2>6. UpsertMoves(A, u) /\ upserting'[u].at = "ended"
        /\ upsertReply'[u] = [how |-> "repeated", revision |-> o.revision]
    BY <2>4, <2>5, AnswersEndUpserts DEF UpsertMoves
  <2>7. upsertReply'[u].revision = o.revision /\ upserting'[u].at # "applying"
    BY <2>6
  <2> QED BY <2>3, <2>6, <2>7, UpsertMovesKeep
<1> QED BY <1>2, <1>3

LEMMA FindsKeepWorkspaces ==
  ASSUME NEW A, UpsertAsks(A), WorkspacesInv(A), NEW u \in Upsert, FindOperation(u)
  PROVE  WorkspacesInv(A)'
<1>1. CASE RefuseUpsert(u) \/ ExistingResult(u)
  BY <1>1, RefusedUpserts, RepeatedUpserts DEF FindOperation
<1>2. CASE upserting' = [upserting EXCEPT ![u].at = "locking"] /\ UNCHANGED <<upsertReply, workspaceHolder>>
  <2>1. UpsertMoves(A, u) /\ upserting'[u].at = "locking" /\ upsertReply'[u] = upsertReply[u]
    BY <1>2 DEF UpsertMoves, WorkspacesInv, WorkspacesTyped, FindOperation, UpsertSteps
  <2> QED BY <2>1, UpsertMovesKeep DEF WorkspacesInv, WorkspacesAreTold
<1> QED BY <1>1, <1>2 DEF FindOperation

LEMMA HoldsKeepWorkspaces ==
  ASSUME NEW A, UpsertAsks(A), WorkspacesInv(A), NEW u \in Upsert, HoldWorkspace(u)
  PROVE  WorkspacesInv(A)'
<1> DEFINE w == upserting[u].ask.workspace
<1>0. w \in Workspace /\ upserting[u].ask \in A /\ workspaces[w].revision \in Nat
  BY DEF WorkspacesInv, WorkspacesTyped, UpsertAsks
<1>1. CASE RefuseUpsert(u)
  BY <1>1, RefusedUpserts DEF HoldWorkspace
<1>2. CASE ~RefuseUpsert(u)
  <2>1. /\ workspaceHolder[w] = NoUpsert /\ RevisionIsExpected(u, w)
        /\ upserting' = [upserting EXCEPT ![u].at = "applying", ![u].seen = workspaces[w].revision]
        /\ workspaceHolder' = IF workspaces[w] = Unnamed THEN workspaceHolder
                              ELSE [workspaceHolder EXCEPT ![w] = u]
        /\ UNCHANGED <<workspaces, upserts, upsertReply>>
    BY <1>2 DEF HoldWorkspace
  <2>2. /\ upserting' \in [Upsert -> [ask : A, at : UpsertSteps, seen : Nat]]
        /\ upserting'[u].ask = upserting[u].ask /\ upserting'[u].at = "applying"
        /\ upserting'[u].seen = workspaces[w].revision
        /\ \A v \in Upsert \ {u} : upserting'[v] = upserting[v]
    BY <1>0, <2>1 DEF WorkspacesInv, WorkspacesTyped, UpsertSteps
  <2>3. UpsertMoves(A, u)
    <3>1. ASSUME NEW x \in Workspace, NEW v \in Upsert \ {u}, workspaceHolder[x] = v
          PROVE  workspaceHolder'[x] = v
      BY <1>0, <2>1, <3>1, WorkspaceAssumption DEF WorkspacesInv, WorkspacesTyped, WorkspaceAssumption
    <3> QED BY <1>0, <2>1, <2>2, <3>1 DEF UpsertMoves, WorkspacesInv, WorkspacesTyped
  <2>4. workspaces[w].revision # 0 => workspaceHolder'[w] = u
    BY <1>0, <2>1 DEF WorkspacesInv, WorkspacesTyped, NamesAreGiven, Unnamed
  <2>5. workspaces[w].revision = upserting[u].ask.expected
    BY <2>1 DEF RevisionIsExpected
  <2>6. upsertReply'[u].how \in {"done", "repeated"} =>
          [ask |-> upserting[u].ask, revision |-> upsertReply'[u].revision] \in upserts
    BY <2>1 DEF WorkspacesInv, WorkspacesAreTold
  <2> HIDE DEF w
  <2> QED BY <2>2, <2>3, <2>4, <2>5, <2>6, UpsertMovesKeep DEF w
<1> QED BY <1>1, <1>2

\* What an applied change makes of a workspace is its next revision.
LEMMA AppliedUpserts ==
  ASSUME NEW A, UpsertAsks(A), WorkspacesInv(A), NEW u \in Upsert, upserting[u].at = "applying",
         ~Collides(u), NEW how \in {"done", "lost"},
         workspaces' = [workspaces EXCEPT ![upserting[u].ask.workspace] = AsRequested(upserting[u].ask)],
         upserts' = upserts \cup {[ask |-> upserting[u].ask, revision |-> upserting[u].ask.expected + 1]},
         AnswerUpsert(u, [how |-> how, revision |-> upserting[u].ask.expected + 1])
  PROVE  WorkspacesInv(A)'
<1> DEFINE ask == upserting[u].ask
           w == ask.workspace
           n == ask.expected
           done == [ask |-> ask, revision |-> n + 1]
<1>0. ask \in A /\ w \in Workspace /\ n \in Nat /\ n + 1 \in Nat /\ ask.name # "none"
      /\ workspaces[w].revision \in Nat
  BY DEF WorkspacesInv, WorkspacesTyped, UpsertAsks
<1>1. workspaces[w].revision = n
  <2>1. upserting[u].seen = n
    BY DEF WorkspacesInv, AppliersHold
  <2>2. CASE n = 0
    BY <1>0, <2>1, <2>2 DEF Collides, Unnamed
  <2>3. CASE n # 0
    BY <2>1, <2>3 DEF WorkspacesInv, AppliersHold
  <2> QED BY <2>2, <2>3
<1>2. /\ workspaces'[w].revision = n + 1 /\ workspaces'[w].name = ask.name
      /\ workspaces'[w].content = ask.content
      /\ \A v \in Workspace \ {w} : workspaces'[v] = workspaces[v]
  BY <1>0 DEF WorkspacesInv, WorkspacesTyped, AsRequested
<1>3. /\ upserting' \in [Upsert -> [ask : A, at : UpsertSteps, seen : Nat]]
      /\ upsertReply' \in [Upsert -> UpsertReplies]
      /\ workspaceHolder' \in [Workspace -> Upsert \cup {NoUpsert}]
      /\ upserting'[u].ask = ask /\ upserting'[u].at = "ended"
      /\ upsertReply'[u] = [how |-> how, revision |-> n + 1]
      /\ \A v \in Upsert \ {u} : upserting'[v] = upserting[v] /\ upsertReply'[v] = upsertReply[v]
      /\ \A x \in Workspace : \A v \in Upsert \ {u} :
           workspaceHolder[x] = v => workspaceHolder'[x] = v
  <2>1. [how |-> how, revision |-> n + 1] \in UpsertReplies /\ WorkspacesTyped(A)
    BY <1>0, RefusalsAreReplies DEF WorkspacesInv
  <2> QED BY <2>1, AnswersEndUpserts
<1>4. WorkspacesTyped(A)'
  <2>1. IsFiniteSet(upserts')
    BY FS_AddElement DEF WorkspacesInv, WorkspacesTyped
  <2>2. upserts' \in SUBSET [ask : A, revision : Nat]
    BY <1>0 DEF WorkspacesInv, WorkspacesTyped
  <2>3. workspaces' \in [Workspace -> [name : {a.name : a \in A} \cup {"none"},
                                       content : {a.content : a \in A} \cup {"none"},
                                       revision : Nat]]
    <3>1. AsRequested(ask) \in [name : {a.name : a \in A} \cup {"none"},
                                content : {a.content : a \in A} \cup {"none"}, revision : Nat]
      BY <1>0 DEF AsRequested
    <3> QED BY <1>0, <3>1 DEF WorkspacesInv, WorkspacesTyped
  <2> QED BY <1>3, <2>1, <2>2, <2>3 DEF WorkspacesTyped
<1>5. NamesAreGiven'
  BY <1>0, <1>2 DEF WorkspacesInv, NamesAreGiven
<1>6. AppliersHold'
  <2>1. ASSUME NEW v \in Upsert, v # u, upserting[v].at = "applying"
        PROVE  /\ upserting[v].seen = upserting[v].ask.expected
               /\ upserting[v].seen # 0 =>
                    /\ workspaceHolder'[upserting[v].ask.workspace] = v
                    /\ workspaces'[upserting[v].ask.workspace].revision = upserting[v].seen
    <3>1. upserting[v].ask.workspace \in Workspace
      BY DEF WorkspacesInv, WorkspacesTyped, UpsertAsks
    <3>2. /\ upserting[v].seen = upserting[v].ask.expected
          /\ upserting[v].seen # 0 =>
               /\ workspaceHolder[upserting[v].ask.workspace] = v
               /\ workspaces[upserting[v].ask.workspace].revision = upserting[v].seen
      BY <2>1 DEF WorkspacesInv, AppliersHold
    <3>3. ASSUME upserting[v].seen # 0 PROVE upserting[v].ask.workspace # w
      <4>1. CASE n = 0
        BY <1>1, <3>2, <3>3, <4>1
      <4>2. CASE n # 0
        BY <1>1, <2>1, <3>2, <3>3, <4>2 DEF WorkspacesInv, AppliersHold
      <4> QED BY <4>1, <4>2
    <3> QED BY <1>2, <1>3, <2>1, <3>1, <3>2, <3>3
  <2> QED BY <1>3, <2>1 DEF AppliersHold
<1>7. HistoryIsWhole'
  <2>1. ASSUME NEW x \in Workspace, x # w
        PROVE  {o \in upserts' : o.ask.workspace = x} = {o \in upserts : o.ask.workspace = x}
    BY <2>1
  <2> DEFINE Old == {o \in upserts : o.ask.workspace = w}
             New == {o \in upserts' : o.ask.workspace = w}
  <2>2. New = Old \cup {done} /\ IsFiniteSet(Old)
    <3>1. IsFiniteSet(Old)
      BY FS_Subset DEF WorkspacesInv, WorkspacesTyped
    <3> QED BY <3>1
  <2>3. /\ Cardinality(Old) = n /\ {o.revision : o \in Old} = 1..n
    BY <1>0, <1>1 DEF WorkspacesInv, HistoryIsWhole
  <2>4. done \notin Old
    <3>1. n + 1 \notin 1..n
      BY <1>0
    <3> QED BY <2>3, <3>1
  <2> HIDE DEF done
  <2>5. Cardinality(New) = n + 1
    <3>1. Cardinality(Old \cup {done}) = Cardinality(Old) + 1
      BY <2>2, <2>4, FS_AddElement
    <3> QED BY <2>2, <2>3, <3>1
  <2> USE DEF done
  <2>6. {o.revision : o \in New} = 1..(n + 1)
    <3>1. {o.revision : o \in New} = {o.revision : o \in Old} \cup {n + 1}
      <4>1. done.revision = n + 1
        OBVIOUS
      <4> HIDE DEF done, Old, New
      <4> QED BY <2>2, <4>1
    <3>2. 1..(n + 1) = (1..n) \cup {n + 1}
      BY <1>0
    <3> QED BY <2>3, <3>1, <3>2
  <2>7. ASSUME NEW o \in New, o.revision = n + 1 PROVE o = done
    BY <1>0, <2>2, <2>3, <2>7
  <2>8. /\ Cardinality(New) = workspaces'[w].revision
        /\ {o.revision : o \in New} = 1..workspaces'[w].revision
        /\ \A o \in New : o.revision = workspaces'[w].revision =>
             o.ask.name = workspaces'[w].name /\ o.ask.content = workspaces'[w].content
    BY <1>2, <2>5, <2>6, <2>7
  <2>9. ASSUME NEW x \in Workspace
        PROVE  LET history == {o \in upserts' : o.ask.workspace = x}
               IN /\ Cardinality(history) = workspaces'[x].revision
                  /\ {o.revision : o \in history} = 1..workspaces'[x].revision
                  /\ \A o \in history : o.revision = workspaces'[x].revision =>
                       o.ask.name = workspaces'[x].name /\ o.ask.content = workspaces'[x].content
    <3>1. CASE x = w
      BY <2>8, <3>1
    <3>2. CASE x # w
      <4>1. workspaces'[x] = workspaces[x]
        BY <1>2, <3>2
      <4> QED BY <2>1, <3>2, <4>1 DEF WorkspacesInv, HistoryIsWhole
    <3> QED BY <3>1, <3>2
  <2> QED BY <2>9 DEF HistoryIsWhole
<1>8. WorkspacesAreTold'
  <2>1. \A o \in upserts : o.ask.key # ask.key
    BY DEF Collides, UpsertUnder
  <2>2. \A o, p \in upserts' : o.ask.key = p.ask.key => o = p
    BY <2>1 DEF WorkspacesInv, WorkspacesAreTold
  <2>3. \A x, y \in Workspace :
          workspaces'[x] # Unnamed /\ workspaces'[x].name = workspaces'[y].name => x = y
    <3>1. \A x \in Workspace \ {w} : workspaces[x].name # ask.name
      BY DEF Collides
    <3> QED BY <1>0, <1>2, <3>1 DEF WorkspacesInv, WorkspacesAreTold
  <2>4. \A v \in Upsert :
          upsertReply'[v].how \in {"done", "repeated"} =>
            [ask |-> upserting'[v].ask, revision |-> upsertReply'[v].revision] \in upserts'
    <3>1. [ask |-> upserting'[u].ask, revision |-> upsertReply'[u].revision] = done
      BY <1>3
    <3>2. ASSUME NEW v \in Upsert, v # u, upsertReply'[v].how \in {"done", "repeated"}
          PROVE  [ask |-> upserting'[v].ask, revision |-> upsertReply'[v].revision] \in upserts'
      <4>1. upserting'[v] = upserting[v] /\ upsertReply'[v] = upsertReply[v]
        BY <1>3, <3>2
      <4>2. [ask |-> upserting[v].ask, revision |-> upsertReply[v].revision] \in upserts
        BY <3>2, <4>1 DEF WorkspacesInv, WorkspacesAreTold
      <4> QED BY <4>1, <4>2
    <3> QED BY <3>1, <3>2
  <2> QED BY <2>2, <2>3, <2>4 DEF WorkspacesAreTold
<1> QED BY <1>4, <1>5, <1>6, <1>7, <1>8 DEF WorkspacesInv

LEMMA AppliesKeepWorkspaces ==
  ASSUME NEW A, UpsertAsks(A), WorkspacesInv(A), NEW u \in Upsert, ApplyUpsert(u)
  PROVE  WorkspacesInv(A)'
<1>1. CASE Collides(u)
  <2>1. /\ upserting' = [upserting EXCEPT ![u].at = "recovering"]
        /\ workspaceHolder' = [w \in Workspace |->
             IF workspaceHolder[w] = u THEN NoUpsert ELSE workspaceHolder[w]]
        /\ UNCHANGED <<workspaces, upserts, upsertReply>>
    BY <1>1 DEF ApplyUpsert
  <2>2. UpsertMoves(A, u) /\ upserting'[u].at = "recovering" /\ upsertReply'[u] = upsertReply[u]
    BY <2>1 DEF UpsertMoves, WorkspacesInv, WorkspacesTyped, UpsertSteps
  <2> QED BY <2>2, UpsertMovesKeep DEF WorkspacesInv, WorkspacesAreTold
<1>2. CASE ~Collides(u)
  <2>1. PICK how \in {"done", "lost"} :
          AnswerUpsert(u, [how |-> how, revision |-> upserting[u].ask.expected + 1])
    BY <1>2 DEF ApplyUpsert
  <2> QED BY <1>2, <2>1, AppliedUpserts DEF ApplyUpsert
<1> QED BY <1>1, <1>2

LEMMA WorkspacesStep ==
  ASSUME NEW A, UpsertAsks(A), WorkspacesInv(A), [WorkspacesNext]_workspaceVars
  PROVE  WorkspacesInv(A)'
<1>1. CASE UNCHANGED workspaceVars
  BY <1>1 DEF workspaceVars, WorkspacesInv, WorkspacesTyped, NamesAreGiven, AppliersHold,
     HistoryIsWhole, WorkspacesAreTold
<1>2. ASSUME NEW u \in Upsert, RecoverOperation(u) \/ UpsertDrops(u) PROVE WorkspacesInv(A)'
  BY <1>2, RefusedUpserts, RepeatedUpserts DEF RecoverOperation, UpsertDrops
<1> QED BY <1>1, <1>2, FindsKeepWorkspaces, HoldsKeepWorkspaces, AppliesKeepWorkspaces DEF WorkspacesNext

\* A workspace is what its last operation made of it, each revision is one operation,
\* and nobody is told of another's change: for any workspaces and any requests,
\* repeated, lost or beside each other.  workspace_repository.py:127-228.
THEOREM WorkspacesAlwaysSound ==
  ASSUME NEW A, UpsertAsks(A)
  PROVE  WorkspacesStart(A) /\ [][WorkspacesNext]_workspaceVars => []WorkspacesAreSound
<1>1. WorkspacesStart(A) => WorkspacesInv(A)
  BY WorkspacesBegin
<1>2. WorkspacesInv(A) /\ [WorkspacesNext]_workspaceVars => WorkspacesInv(A)'
  BY WorkspacesStep
<1>3. WorkspacesInv(A) => WorkspacesAreSound
  BY DEF WorkspacesInv, WorkspacesAreSound
<1> QED BY <1>1, <1>2, <1>3, PTL

----------------------------------------------------------------------------
(* Calls that leave the platform.                                             *)

CallSteps == {"idle", "built", "sending", "noting", "ended"}
CallGateways == Vendors \cup Channels \cup {"http_json", "controller", "none"}
CallAnswers == {"nothing", "success", "refused", "error", "cancelled", "invalid", "unnoted"}

CallCounters == {"SUCCESS", "BUSINESS_FAILURE", "GATEWAY_ERROR", "CANCELLED"}

CallsTyped ==
  /\ outbound \in [Outgoing -> [want : CallTargets, at : CallSteps, to : CallGateways,
                                told : CallAnswers, counted : SUBSET CallCounters, busy : BOOLEAN]]
  /\ actedOn \in SUBSET Outgoing
  /\ noticeTrail \in SUBSET [of : Outgoing, delivered : BOOLEAN]

\* Through whom a call goes.
GatewayFits(c) ==
  /\ outbound[c].want \in Tickets => outbound[c].to \in Vendors \cup {"http_json"}
  /\ outbound[c].want \in Channels => outbound[c].to = outbound[c].want
  /\ outbound[c].want = "controller" => outbound[c].to = "controller"

\* What is known of a call by where it is, and of its answer whatever the other side does yet.
CallFits(c) ==
  /\ outbound[c].at \in {"idle", "built", "sending"} => outbound[c].told = "nothing" /\ ~outbound[c].busy
  /\ outbound[c].at \in {"idle", "built"} => outbound[c].to = "none"
  /\ outbound[c].at = "sending" => outbound[c].to # "none"
  /\ outbound[c].at \in {"built", "noting"} => outbound[c].want \in Channels
  /\ outbound[c].at = "noting" => outbound[c].told \in {"success", "error"}
  /\ IF outbound[c].to # "none" THEN GatewayFits(c) ELSE c \notin actedOn
  /\ outbound[c].told = "success" /\ outbound[c].to # "teams" => c \in actedOn
  /\ outbound[c].told = "refused" => c \notin actedOn
  /\ outbound[c].busy => outbound[c].told # "refused"
  /\ outbound[c].want \in Tickets /\ outbound[c].at = "ended" /\ outbound[c].to # "none" =>
       outbound[c].counted = {Counter(outbound[c].told)}

\* What the trail has of a call: nothing before it has ended.
NotesOf(c) == {n \in noticeTrail : n.of = c}
NotesFit(c) ==
  /\ NotesOf(c) # {} => outbound[c].at = "ended"
  /\ \A n, o \in NotesOf(c) : n = o
  /\ \A n \in NotesOf(c) : outbound[c].told = IF n.delivered THEN "success" ELSE "error"
  /\ outbound[c].want \in Channels /\ outbound[c].at = "ended"
       /\ outbound[c].told \in {"success", "error"} => NotesOf(c) # {}

CallsInv == CallsTyped /\ \A c \in Outgoing : CallFits(c) /\ NotesFit(c)

\* The first state, whatever the targets.
CallsStart ==
  OutboundInit /\ outbound \in [Outgoing -> [want : CallTargets, at : {"idle"}, to : {"none"},
                                             told : {"nothing"}, counted : {{}}, busy : {FALSE}]]
----------------------------------------------------------------------------
LEMMA CallsBegin ==
  ASSUME CallsStart PROVE CallsInv
<1>1. CallsTyped
  BY DEF CallsStart, OutboundInit, CallsTyped, CallSteps, CallGateways, CallAnswers
<1>2. ASSUME NEW c \in Outgoing PROVE CallFits(c) /\ NotesFit(c)
  <2>1. /\ outbound[c].at = "idle" /\ outbound[c].to = "none" /\ outbound[c].told = "nothing"
        /\ outbound[c].busy = FALSE /\ NotesOf(c) = {} /\ c \notin actedOn
    BY DEF CallsStart, OutboundInit, NotesOf
  <2> QED BY <2>1 DEF CallFits, NotesFit
<1> QED BY <1>1, <1>2 DEF CallsInv

\* A step of one call: what its record becomes.
CallBecomes(c, at, to, heard, counted, busy) ==
  /\ outbound' \in [Outgoing -> [want : CallTargets, at : CallSteps, to : CallGateways,
                                 told : CallAnswers, counted : SUBSET CallCounters, busy : BOOLEAN]]
  /\ outbound'[c].want = outbound[c].want /\ outbound'[c].at = at /\ outbound'[c].to = to
  /\ outbound'[c].told = heard /\ outbound'[c].counted = counted /\ outbound'[c].busy = busy
  /\ \A d \in Outgoing \ {c} : outbound'[d] = outbound[d]

\* Nothing but the record of one call changes.
OneCall(c) ==
  /\ outbound' = [d \in Outgoing |-> outbound'[d]]
  /\ \A d \in Outgoing \ {c} : outbound'[d] = outbound[d]

LEMMA CallsMove ==
  ASSUME CallsTyped, NEW c \in Outgoing, NEW at \in CallSteps, NEW to \in CallGateways,
         NEW heard \in CallAnswers, NEW counted \in SUBSET CallCounters, NEW busy \in BOOLEAN, OneCall(c),
         outbound'[c] = [want |-> outbound[c].want, at |-> at, to |-> to,
                         told |-> heard, counted |-> counted, busy |-> busy]
  PROVE  CallBecomes(c, at, to, heard, counted, busy)
<1> DEFINE R == [want : CallTargets, at : CallSteps, to : CallGateways,
                 told : CallAnswers, counted : SUBSET CallCounters, busy : BOOLEAN]
<1>1. outbound \in [Outgoing -> R] /\ outbound[c] \in R
  BY DEF CallsTyped
<1>2. outbound'[c] \in R
  BY <1>1
<1>3. outbound' \in [Outgoing -> R]
  <2> HIDE DEF R
  <2> QED BY <1>1, <1>2 DEF OneCall
<1> QED BY <1>3 DEF CallBecomes, OneCall

LEMMA TellsMove ==
  ASSUME CallsTyped, NEW c \in Outgoing, NEW at \in CallSteps, NEW heard \in CallAnswers,
         NEW counted \in SUBSET CallCounters, Tell2(c, at, heard, counted)
  PROVE  CallBecomes(c, at, outbound[c].to, heard, counted, outbound[c].busy)
<1> DEFINE C == SUBSET CallCounters
           B == BOOLEAN
<1>1. outbound[c] \in [want : CallTargets, at : CallSteps, to : CallGateways,
                       told : CallAnswers, counted : C, busy : B]
  BY DEF CallsTyped
<1>2. OneCall(c) /\ outbound'[c] = [outbound[c] EXCEPT !.at = at, !.told = heard, !.counted = counted]
  BY DEF Tell2, CallsTyped, OneCall
<1>3. /\ outbound'[c] = [want |-> outbound[c].want, at |-> at, to |-> outbound[c].to,
                         told |-> heard, counted |-> counted, busy |-> outbound[c].busy]
      /\ outbound[c].to \in CallGateways /\ outbound[c].busy \in B
  <2> HIDE DEF B, C
  <2> QED BY <1>1, <1>2
<1> QED BY <1>2, <1>3, CallsMove

SendsTo(c, g) == outbound' = [outbound EXCEPT ![c].at = "sending", ![c].to = g]

LEMMA SendsMove ==
  ASSUME CallsTyped, NEW c \in Outgoing, NEW g \in CallGateways, SendsTo(c, g)
  PROVE  CallBecomes(c, "sending", g, outbound[c].told, outbound[c].counted, outbound[c].busy)
<1> DEFINE C == SUBSET CallCounters
           B == BOOLEAN
<1>1. outbound[c] \in [want : CallTargets, at : CallSteps, to : CallGateways,
                       told : CallAnswers, counted : C, busy : B]
  BY DEF CallsTyped
<1>2. OneCall(c) /\ outbound'[c] = [outbound[c] EXCEPT !.at = "sending", !.to = g]
  BY DEF CallsTyped, OneCall, SendsTo
<1>3. /\ outbound'[c] = [want |-> outbound[c].want, at |-> "sending", to |-> g,
                         told |-> outbound[c].told, counted |-> outbound[c].counted,
                         busy |-> outbound[c].busy]
      /\ outbound[c].told \in CallAnswers /\ outbound[c].counted \in C /\ outbound[c].busy \in B
  <2> HIDE DEF B, C
  <2> QED BY <1>1, <1>2
<1>4. "sending" \in CallSteps
  BY DEF CallSteps
<1> QED BY <1>2, <1>3, <1>4, CallsMove

LEMMA StepsMove ==
  ASSUME CallsTyped, NEW c \in Outgoing, NEW at \in CallSteps,
         outbound' = [outbound EXCEPT ![c].at = at]
  PROVE  CallBecomes(c, at, outbound[c].to, outbound[c].told, outbound[c].counted, outbound[c].busy)
<1> DEFINE C == SUBSET CallCounters
           B == BOOLEAN
<1>1. outbound[c] \in [want : CallTargets, at : CallSteps, to : CallGateways,
                       told : CallAnswers, counted : C, busy : B]
  BY DEF CallsTyped
<1>2. OneCall(c) /\ outbound'[c] = [outbound[c] EXCEPT !.at = at]
  BY DEF CallsTyped, OneCall
<1>3. /\ outbound'[c] = [want |-> outbound[c].want, at |-> at, to |-> outbound[c].to,
                         told |-> outbound[c].told, counted |-> outbound[c].counted,
                         busy |-> outbound[c].busy]
      /\ outbound[c].told \in CallAnswers /\ outbound[c].counted \in C /\ outbound[c].busy \in B
      /\ outbound[c].to \in CallGateways
  <2> HIDE DEF B, C
  <2> QED BY <1>1, <1>2
<1> QED BY <1>2, <1>3, CallsMove

\* One call moves on and fits where it is: so do the others, which stay.
LEMMA CallMovesKeep ==
  ASSUME CallsInv, NEW c \in Outgoing, NEW at, NEW to, NEW heard, NEW counted, NEW busy,
         CallBecomes(c, at, to, heard, counted, busy), UNCHANGED actedOn,
         noticeTrail' \in SUBSET [of : Outgoing, delivered : BOOLEAN],
         \A d \in Outgoing \ {c} : NotesOf(d)' = NotesOf(d),
         CallFits(c)', NotesFit(c)'
  PROVE  CallsInv'
<1>1. CallsTyped'
  BY DEF CallsInv, CallsTyped, CallBecomes
<1>2. ASSUME NEW d \in Outgoing, d # c PROVE CallFits(d)' /\ NotesFit(d)'
  <2>1. outbound'[d] = outbound[d] /\ NotesOf(d)' = NotesOf(d) /\ CallFits(d) /\ NotesFit(d)
    BY <1>2 DEF CallsInv, CallBecomes
  <2>2. CallFits(d)'
    BY <2>1 DEF CallFits, GatewayFits
  <2>3. NotesFit(d)'
    BY <2>1 DEF NotesFit
  <2> QED BY <2>2, <2>3
<1> QED BY <1>1, <1>2 DEF CallsInv

\* A call that sends nothing before it ends: nothing is counted of it, nothing noted.
LEMMA UnsentCalls ==
  ASSUME CallsInv, NEW c \in Outgoing, outbound[c].at \in {"idle", "built"},
         UNCHANGED <<actedOn, noticeTrail>>, NEW heard \in {"error", "refused", "invalid"},
         NEW at \in {"ended", "noting"},
         at = "noting" => heard = "error" /\ outbound[c].want \in Channels,
         outbound[c].want \in Channels /\ at = "ended" => heard = "invalid", Tell2(c, at, heard, {})
  PROVE  CallsInv'
<1>1. CallsTyped /\ CallFits(c) /\ NotesFit(c) /\ at \in CallSteps /\ heard \in CallAnswers
  BY DEF CallsInv, CallSteps, CallAnswers
<1>2. CallBecomes(c, at, outbound[c].to, heard, {}, outbound[c].busy)
  BY <1>1, TellsMove
<1>3. outbound[c].to = "none" /\ ~outbound[c].busy /\ NotesOf(c) = {} /\ c \notin actedOn
  BY <1>1 DEF CallFits, NotesFit
<1>4. /\ outbound'[c].want = outbound[c].want /\ outbound'[c].at = at /\ outbound'[c].to = "none"
      /\ outbound'[c].told = heard /\ ~outbound'[c].busy
  BY <1>2, <1>3 DEF CallBecomes
<1>5. \A d \in Outgoing : NotesOf(d)' = NotesOf(d)
  BY DEF NotesOf
<1>6. CallFits(c)'
  BY <1>3, <1>4 DEF CallFits
<1>7. NotesFit(c)'
  BY <1>3, <1>4, <1>5 DEF NotesFit
<1>8. noticeTrail' \in SUBSET [of : Outgoing, delivered : BOOLEAN]
  BY <1>1 DEF CallsTyped
<1> QED BY <1>2, <1>5, <1>6, <1>7, <1>8, CallMovesKeep

LEMMA SentCalls ==
  ASSUME CallsInv, NEW c \in Outgoing, outbound[c].at \in {"idle", "built"},
         UNCHANGED <<actedOn, noticeTrail>>, NEW g \in CallGateways \ {"none"},
         /\ outbound[c].want \in Tickets => g \in Vendors \cup {"http_json"}
         /\ outbound[c].want \in Channels => g = outbound[c].want
         /\ outbound[c].want = "controller" => g = "controller",
         SendsTo(c, g)
  PROVE  CallsInv'
<1>1. CallsTyped /\ CallFits(c) /\ NotesFit(c)
  BY DEF CallsInv
<1>2. CallBecomes(c, "sending", g, outbound[c].told, outbound[c].counted, outbound[c].busy)
  BY <1>1, SendsMove
<1>3. outbound[c].told = "nothing" /\ ~outbound[c].busy /\ NotesOf(c) = {}
  BY <1>1 DEF CallFits, NotesFit
<1>4. /\ outbound'[c].want = outbound[c].want /\ outbound'[c].at = "sending" /\ outbound'[c].to = g
      /\ outbound'[c].told = "nothing" /\ ~outbound'[c].busy
  BY <1>2, <1>3 DEF CallBecomes
<1>5. \A d \in Outgoing : NotesOf(d)' = NotesOf(d)
  BY DEF NotesOf
<1>6. CallFits(c)'
  BY <1>4 DEF CallFits, GatewayFits
<1>7. NotesFit(c)'
  BY <1>3, <1>4, <1>5 DEF NotesFit
<1>8. noticeTrail' \in SUBSET [of : Outgoing, delivered : BOOLEAN]
  BY <1>1 DEF CallsTyped
<1> QED BY <1>2, <1>5, <1>6, <1>7, <1>8, CallMovesKeep
----------------------------------------------------------------------------
LEMMA BeginningsKeepCalls ==
  ASSUME CallsInv, NEW c \in Outgoing,
         SubmitTicket(c) \/ BuildNotice(c) \/ SendNotice(c) \/ InvokeController(c)
  PROVE  CallsInv'
<1>0. /\ CallsTyped /\ CallFits(c) /\ NotesFit(c) /\ UNCHANGED <<actedOn, noticeTrail>>
      /\ outbound[c].want = TargetOf(c) /\ outbound[c].want \in CallTargets
  BY DEF CallsInv, SubmitTicket, BuildNotice, SendNotice, InvokeController, TargetOf, CallsTyped
<1>1. CASE SubmitTicket(c)
  <2>1. outbound[c].want \in Tickets /\ outbound[c].at = "idle" /\ outbound[c].want \notin Channels
        /\ outbound[c].want # "controller"
    BY <1>0, <1>1 DEF SubmitTicket, Tickets, Vendors, Channels
  <2> DEFINE g == GatewayFor(TargetOf(c))
  <2>3. g # "none" => g \in Vendors \cup {"http_json"}
    BY <1>0, <2>1, OutboundAssumption DEF GatewayFor, OutboundAssumption, Tickets, Vendors, Channels
  <2>4. g # "none" => g \in CallGateways \ {"none"}
    BY <2>3 DEF CallGateways
  <2>5. \/ Tell2(c, "ended", "error", {}) \/ Tell2(c, "ended", "refused", {})
        \/ g # "none" /\ SendsTo(c, g)
    BY <1>1 DEF SubmitTicket, SendsTo
  <2> HIDE DEF g
  <2> QED BY <1>0, <2>1, <2>3, <2>4, <2>5, UnsentCalls, SentCalls
<1>2. CASE BuildNotice(c)
  <2>1. outbound[c].want \in Channels /\ outbound[c].at = "idle"
    BY <1>0, <1>2 DEF BuildNotice
  <2>2. CASE outbound' = [outbound EXCEPT ![c].at = "built"]
    <3>1. CallBecomes(c, "built", outbound[c].to, outbound[c].told, outbound[c].counted, outbound[c].busy)
      BY <1>0, <2>2, StepsMove DEF CallSteps
    <3>2. outbound[c].to = "none" /\ outbound[c].told = "nothing" /\ ~outbound[c].busy /\ NotesOf(c) = {}
      BY <1>0, <2>1 DEF CallFits, NotesFit
    <3>8. c \notin actedOn
      BY <1>0, <3>2 DEF CallFits
    <3>3. /\ outbound'[c].want = outbound[c].want /\ outbound'[c].at = "built" /\ outbound'[c].to = "none"
          /\ outbound'[c].told = "nothing" /\ ~outbound'[c].busy
      BY <3>1, <3>2 DEF CallBecomes
    <3>4. \A d \in Outgoing : NotesOf(d)' = NotesOf(d)
      BY <1>0 DEF NotesOf
    <3>5. CallFits(c)'
      BY <1>0, <2>1, <3>3, <3>8 DEF CallFits
    <3>6. NotesFit(c)'
      BY <3>2, <3>3, <3>4 DEF NotesFit
    <3>7. noticeTrail' \in SUBSET [of : Outgoing, delivered : BOOLEAN]
      BY <1>0 DEF CallsTyped
    <3> QED BY <1>0, <3>1, <3>4, <3>5, <3>6, <3>7, CallMovesKeep
  <2>3. CASE Tell2(c, "ended", "invalid", {})
    BY <1>0, <2>1, <2>3, UnsentCalls
  <2> QED BY <1>2, <2>2, <2>3 DEF BuildNotice
<1>3. CASE SendNotice(c)
  <2>1. outbound[c].want \in Channels /\ outbound[c].at = "built"
    BY <1>0, <1>3 DEF SendNotice, CallFits
  <2>2. CASE Tell2(c, "noting", "error", {}) \/ Tell2(c, "ended", "invalid", {})
    BY <1>0, <2>1, <2>2, UnsentCalls
  <2>3. CASE SendsTo(c, TargetOf(c))
    <3>1. /\ outbound[c].want \in CallGateways \ {"none"} /\ outbound[c].want \notin Tickets
          /\ outbound[c].want # "controller"
      BY <2>1 DEF Channels, CallGateways, Tickets, Vendors
    <3> QED BY <1>0, <2>1, <2>3, <3>1, SentCalls
  <2> QED BY <1>3, <2>2, <2>3 DEF SendNotice, SendsTo
<1>4. CASE InvokeController(c)
  <2>1. outbound[c].want = "controller" /\ outbound[c].at = "idle"
        /\ outbound[c].want \notin Channels \cup Tickets
    BY <1>0, <1>4 DEF InvokeController, Channels, Tickets, Vendors
  <2>2. CASE Tell2(c, "ended", "error", {})
    BY <1>0, <2>1, <2>2, UnsentCalls
  <2>3. CASE SendsTo(c, "controller")
    <3>1. "controller" \in CallGateways \ {"none"}
      BY DEF CallGateways
    <3> QED BY <1>0, <2>1, <2>3, <3>1, SentCalls
  <2> QED BY <1>4, <2>2, <2>3 DEF InvokeController, SendsTo
<1> QED BY <1>1, <1>2, <1>3, <1>4

----------------------------------------------------------------------------
\* What an answer says of what the other side did.
LEMMA AnswersTell ==
  ASSUME NEW to \in CallGateways \ {"none"}, NEW r \in Response, NEW acted \in BOOLEAN,
         Honest(r, acted)
  PROVE  /\ Read(to, r) \in {"success", "refused", "error"}
         /\ Read(to, r) = "success" /\ to # "teams" => acted
         /\ Read(to, r) = "refused" => ~acted /\ r.status \notin {"429", "5xx"} /\ to \notin Channels
<1>0. to \in Vendors \cup Channels \cup {"http_json", "controller"}
  BY DEF CallGateways
<1>1. /\ r.status \in {"2xx", "3xx", "4xx", "429", "5xx"}
      /\ r.body \in {"good", "refusal", "garbage", "empty", "huge"}
  BY DEF Response
<1>2. /\ r.status = "2xx" /\ r.body \in {"good", "empty"} => acted
      /\ r.status \in {"3xx", "4xx", "429"} \/ r.body = "refusal" => ~acted
  BY DEF Honest, Ok
<1>3. CASE to \in Vendors
  <2>1. Read(to, r) = ReadVendor(r) /\ to # "teams" /\ to \notin Channels
    BY <1>3 DEF Read, Vendors, Channels
  <2>2. /\ ReadVendor(r) \in {"success", "refused", "error"}
        /\ ReadVendor(r) = "success" => r.body = "good" /\ r.status = "2xx"
        /\ ReadVendor(r) = "refused" => r.status \in {"3xx", "4xx"}
    BY <1>1 DEF ReadVendor, Ok
  <2> QED BY <1>2, <2>1, <2>2
<1>4. CASE to = "http_json" \/ to = "controller"
  <2>1. Read(to, r) \in {ReadHttpJson(r), ReadController(r)} /\ to # "teams" /\ to \notin Channels
    BY <1>4 DEF Read, Vendors, Channels
  <2> QED BY <1>1, <1>2, <2>1 DEF ReadHttpJson, ReadController, Ok
<1>5. CASE to \in Channels
  <2>1. Read(to, r) = ReadNotice(to, r)
    BY <1>5 DEF Read, Vendors, Channels
  <2>2. /\ ReadNotice(to, r) \in {"success", "error"}
        /\ ReadNotice(to, r) = "success" /\ to # "teams" => r.status = "2xx" /\ r.body \in {"good", "empty"}
    BY <1>1, <1>5 DEF ReadNotice, Ok, Channels
  <2> QED BY <1>2, <2>1, <2>2
<1> QED BY <1>0, <1>3, <1>4, <1>5

\* A call that was sent gets an answer: read, cut off, or no longer waited for.
LEMMA AnsweredCalls ==
  ASSUME CallsInv, NEW c \in Outgoing, outbound[c].at = "sending",
         UNCHANGED <<actedOn, noticeTrail>>,
         NEW at \in {"ended", "noting"}, NEW heard \in {"success", "refused", "error", "cancelled"},
         NEW busy, CallBecomes(c, at, outbound[c].to, heard, Counts(c, heard), busy),
         at = "noting" <=> (outbound[c].want \in Channels /\ heard # "cancelled"),
         heard = "success" /\ outbound[c].to # "teams" => c \in actedOn,
         heard = "refused" => c \notin actedOn /\ ~busy /\ outbound[c].to \notin Channels
  PROVE  CallsInv'
<1>1. CallsTyped /\ CallFits(c) /\ NotesFit(c)
  BY DEF CallsInv
<1>2. outbound[c].to # "none" /\ GatewayFits(c) /\ NotesOf(c) = {}
  BY <1>1 DEF CallFits, NotesFit
<1>3. /\ outbound'[c].want = outbound[c].want /\ outbound'[c].at = at
      /\ outbound'[c].to = outbound[c].to
      /\ outbound'[c].told = heard /\ outbound'[c].busy = busy /\ outbound'[c].counted = Counts(c, heard)
  BY DEF CallBecomes
<1>4. GatewayFits(c)'
  BY <1>2, <1>3 DEF GatewayFits
<1>5. outbound[c].want \in Tickets => Counts(c, heard) = {Counter(heard)}
  BY DEF Counts, TargetOf
<1>6. outbound[c].want \in Channels => outbound[c].to \in Channels
  BY <1>2 DEF GatewayFits
<1>7. CallFits(c)'
  BY <1>2, <1>3, <1>4, <1>5, <1>6 DEF CallFits
<1>8. \A d \in Outgoing : NotesOf(d)' = NotesOf(d)
  BY DEF NotesOf
<1>9. NotesFit(c)'
  BY <1>2, <1>3, <1>6, <1>8 DEF NotesFit
<1>10. noticeTrail' \in SUBSET [of : Outgoing, delivered : BOOLEAN]
  BY <1>1 DEF CallsTyped
<1> QED BY <1>7, <1>8, <1>9, <1>10, CallMovesKeep

\* What is heard of an answer.
Hears(c, at, heard, counted, busy) ==
  outbound' = [outbound EXCEPT ![c].at = at, ![c].told = heard, ![c].counted = counted, ![c].busy = busy]

LEMMA HearsMove ==
  ASSUME CallsTyped, NEW c \in Outgoing, NEW at \in CallSteps, NEW heard \in CallAnswers,
         NEW counted \in SUBSET CallCounters, NEW busy \in BOOLEAN, Hears(c, at, heard, counted, busy)
  PROVE  CallBecomes(c, at, outbound[c].to, heard, counted, busy)
<1> DEFINE C == SUBSET CallCounters
           B == BOOLEAN
<1>1. outbound[c] \in [want : CallTargets, at : CallSteps, to : CallGateways,
                       told : CallAnswers, counted : C, busy : B]
  BY DEF CallsTyped
<1>2. OneCall(c) /\ outbound'[c] = [outbound[c] EXCEPT !.at = at, !.told = heard, !.counted = counted,
                                                       !.busy = busy]
  BY DEF Hears, CallsTyped, OneCall
<1>3. /\ outbound'[c] = [want |-> outbound[c].want, at |-> at, to |-> outbound[c].to,
                         told |-> heard, counted |-> counted, busy |-> busy]
      /\ outbound[c].to \in CallGateways
  <2> HIDE DEF B, C
  <2> QED BY <1>1, <1>2
<1> QED BY <1>2, <1>3, CallsMove

LEMMA CountsAreNames ==
  ASSUME NEW c, NEW heard \in {"success", "refused", "error", "cancelled"}
  PROVE  Counts(c, heard) \in SUBSET CallCounters
<1>1. Counter(heard) \in {"SUCCESS", "BUSINESS_FAILURE", "GATEWAY_ERROR", "CANCELLED"}
  BY DEF Counter
<1> QED BY <1>1 DEF Counts, CallCounters

LEMMA AnswersKeepCalls ==
  ASSUME CallsInv, NEW c \in Outgoing, AnswerArrives(c) \/ TransportFails(c)
  PROVE  CallsInv'
<1>0. /\ CallsTyped /\ CallFits(c) /\ outbound[c].at = "sending" /\ UNCHANGED <<actedOn, noticeTrail>>
      /\ outbound[c].to \in CallGateways
  BY DEF CallsInv, AnswerArrives, TransportFails, CallsTyped
<1>1. outbound[c].to # "none" /\ outbound[c].busy = FALSE
  <2>1. outbound[c].busy \in BOOLEAN
    BY <1>0 DEF CallsTyped
  <2> QED BY <1>0, <2>1 DEF CallFits
<1> DEFINE at == AfterAnswer(c)
<1>2. /\ at \in {"ended", "noting"} /\ at \in CallSteps
      /\ at = "noting" <=> outbound[c].want \in Channels
  BY DEF AfterAnswer, TargetOf, CallSteps
<1>3. {"success", "refused", "error", "cancelled"} \subseteq CallAnswers
  BY DEF CallAnswers
<1>4. CASE AnswerArrives(c)
  <2>1. PICK r \in Response : /\ Honest(r, c \in actedOn)
                              /\ Hears(c, AfterAnswer(c), Read(outbound[c].to, r),
                                       Counts(c, Read(outbound[c].to, r)), r.status \in {"429", "5xx"})
    BY <1>4 DEF AnswerArrives, Hears
  <2> DEFINE heard == Read(outbound[c].to, r)
             busy == r.status \in {"429", "5xx"}
             acted == c \in actedOn
  <2>2. /\ heard \in {"success", "refused", "error"}
        /\ heard = "success" /\ outbound[c].to # "teams" => c \in actedOn
        /\ heard = "refused" => ~(c \in actedOn) /\ ~busy /\ outbound[c].to \notin Channels
    <3>1. acted \in BOOLEAN /\ outbound[c].to \in CallGateways \ {"none"} /\ Honest(r, acted)
      BY <1>0, <1>1, <2>1
    <3> HIDE DEF acted
    <3>2. /\ heard \in {"success", "refused", "error"}
          /\ heard = "success" /\ outbound[c].to # "teams" => acted
          /\ heard = "refused" => ~acted /\ r.status \notin {"429", "5xx"} /\ outbound[c].to \notin Channels
      BY <3>1, AnswersTell
    <3> QED BY <3>2 DEF acted
  <2>3. busy \in BOOLEAN /\ heard \in CallAnswers /\ Counts(c, heard) \in SUBSET CallCounters
    BY <2>2, CountsAreNames DEF CallAnswers
  <2>4. Hears(c, at, heard, Counts(c, heard), busy)
    BY <2>1
  <2> HIDE DEF heard, busy, at
  <2>5. CallBecomes(c, at, outbound[c].to, heard, Counts(c, heard), busy)
    BY <1>0, <1>2, <2>3, <2>4, HearsMove
  <2> QED BY <1>0, <1>2, <2>2, <2>5, AnsweredCalls
<1>5. CASE TransportFails(c)
  <2>1. Tell2(c, at, "error", Counts(c, "error")) /\ Counts(c, "error") \in SUBSET CallCounters
    BY <1>5, CountsAreNames DEF TransportFails
  <2> HIDE DEF at
  <2>2. CallBecomes(c, at, outbound[c].to, "error", Counts(c, "error"), outbound[c].busy)
    BY <1>0, <1>2, <1>3, <2>1, TellsMove
  <2> QED BY <1>0, <1>2, <2>2, AnsweredCalls
<1> QED BY <1>4, <1>5

\* The caller does not wait any longer, for an answer or for its event.
LEMMA CancelledCalls ==
  ASSUME CallsInv, NEW c \in Outgoing, CallIsCancelled(c)
  PROVE  CallsInv'
<1>0. /\ CallsTyped /\ CallFits(c) /\ NotesFit(c) /\ UNCHANGED <<actedOn, noticeTrail>>
  BY DEF CallsInv, CallIsCancelled
<1>1. "ended" \in CallSteps /\ "cancelled" \in CallAnswers
  BY DEF CallSteps, CallAnswers
<1>2. CASE outbound[c].at = "sending"
  <2>1. Tell2(c, "ended", "cancelled", Counts(c, "cancelled")) /\ Counts(c, "cancelled") \in SUBSET CallCounters
    BY <1>2, CountsAreNames DEF CallIsCancelled
  <2>2. CallBecomes(c, "ended", outbound[c].to, "cancelled", Counts(c, "cancelled"), outbound[c].busy)
    BY <1>0, <1>1, <2>1, TellsMove
  <2> QED BY <1>0, <1>2, <2>2, AnsweredCalls
<1>3. CASE outbound[c].at = "noting"
  <2>1. Tell2(c, "ended", "cancelled", {}) /\ {} \in SUBSET CallCounters
    BY <1>3 DEF CallIsCancelled
  <2>2. CallBecomes(c, "ended", outbound[c].to, "cancelled", {}, outbound[c].busy)
    BY <1>0, <1>1, <2>1, TellsMove
  <2>3. outbound[c].want \in Channels /\ outbound[c].want \notin Tickets /\ NotesOf(c) = {}
    BY <1>0, <1>3 DEF CallFits, NotesFit, Channels, Tickets, Vendors
  <2>4. /\ outbound'[c].want = outbound[c].want /\ outbound'[c].at = "ended"
        /\ outbound'[c].to = outbound[c].to
        /\ outbound'[c].told = "cancelled" /\ outbound'[c].busy = outbound[c].busy
    BY <2>2 DEF CallBecomes
  <2>5. \A d \in Outgoing : NotesOf(d)' = NotesOf(d)
    BY <1>0 DEF NotesOf
  <2>6. CallFits(c)'
    <3>1. GatewayFits(c) => GatewayFits(c)'
      BY <2>4 DEF GatewayFits
    <3> QED BY <1>0, <2>3, <2>4, <3>1 DEF CallFits
  <2>7. NotesFit(c)'
    BY <2>3, <2>4, <2>5 DEF NotesFit
  <2>8. noticeTrail' \in SUBSET [of : Outgoing, delivered : BOOLEAN]
    BY <1>0 DEF CallsTyped
  <2> QED BY <1>0, <2>2, <2>5, <2>6, <2>7, <2>8, CallMovesKeep
<1> QED BY <1>2, <1>3 DEF CallIsCancelled

\* The event of a notice is written, or its caller hears that it was not.
LEMMA NotedCalls ==
  ASSUME CallsInv, NEW c \in Outgoing, NoteDelivery(c)
  PROVE  CallsInv'
<1>0. /\ CallsTyped /\ CallFits(c) /\ NotesFit(c) /\ UNCHANGED actedOn /\ outbound[c].at = "noting"
  BY DEF CallsInv, NoteDelivery
<1>1. /\ outbound[c].want \in Channels /\ outbound[c].want \notin Tickets /\ NotesOf(c) = {}
      /\ outbound[c].told \in {"success", "error"}
  BY <1>0 DEF CallFits, NotesFit, Channels, Tickets, Vendors
<1>2. "ended" \in CallSteps /\ "unnoted" \in CallAnswers /\ {} \in SUBSET CallCounters
  BY DEF CallSteps, CallAnswers
<1>3. CASE /\ noticeTrail' = noticeTrail \cup {[of |-> c, delivered |-> outbound[c].told = "success"]}
           /\ outbound' = [outbound EXCEPT ![c].at = "ended"]
  <2> DEFINE d1 == outbound[c].told = "success"
             n == [of |-> c, delivered |-> d1]
  <2>0. noticeTrail' = noticeTrail \cup {n} /\ d1 \in BOOLEAN /\ n.of = c /\ n.delivered = d1
    BY <1>3
  <2>1. CallBecomes(c, "ended", outbound[c].to, outbound[c].told, outbound[c].counted, outbound[c].busy)
    BY <1>0, <1>2, <1>3, StepsMove
  <2>2. /\ outbound'[c].want = outbound[c].want /\ outbound'[c].at = "ended"
        /\ outbound'[c].to = outbound[c].to
        /\ outbound'[c].told = outbound[c].told /\ outbound'[c].busy = outbound[c].busy
    BY <2>1 DEF CallBecomes
  <2>3. noticeTrail' \in SUBSET [of : Outgoing, delivered : BOOLEAN]
    BY <1>0, <2>0 DEF CallsTyped
  <2>4. \A d \in Outgoing \ {c} : NotesOf(d)' = NotesOf(d)
    <3> HIDE DEF n
    <3> QED BY <2>0 DEF NotesOf
  <2>5. NotesOf(c)' = {n}
    <3> HIDE DEF n
    <3> QED BY <1>1, <2>0 DEF NotesOf
  <2>6. CallFits(c)'
    <3>1. GatewayFits(c) => GatewayFits(c)'
      BY <2>2 DEF GatewayFits
    <3> QED BY <1>0, <1>1, <2>2, <3>1 DEF CallFits
  <2>7. NotesFit(c)'
    <3>1. outbound'[c].told = IF n.delivered THEN "success" ELSE "error"
      BY <1>1, <2>0, <2>2
    <3> HIDE DEF n
    <3> QED BY <2>2, <2>5, <3>1 DEF NotesFit
  <2> QED BY <1>0, <2>1, <2>3, <2>4, <2>6, <2>7, CallMovesKeep
<1>4. CASE Tell2(c, "ended", "unnoted", {}) /\ UNCHANGED noticeTrail
  <2>2. CallBecomes(c, "ended", outbound[c].to, "unnoted", {}, outbound[c].busy)
    BY <1>0, <1>2, <1>4, TellsMove
  <2>4. /\ outbound'[c].want = outbound[c].want /\ outbound'[c].at = "ended"
        /\ outbound'[c].to = outbound[c].to
        /\ outbound'[c].told = "unnoted" /\ outbound'[c].busy = outbound[c].busy
    BY <2>2 DEF CallBecomes
  <2>5. \A d \in Outgoing : NotesOf(d)' = NotesOf(d)
    BY <1>4 DEF NotesOf
  <2>6. CallFits(c)'
    <3>1. GatewayFits(c) => GatewayFits(c)'
      BY <2>4 DEF GatewayFits
    <3> QED BY <1>0, <1>1, <2>4, <3>1 DEF CallFits
  <2>7. NotesFit(c)'
    BY <1>1, <2>4, <2>5 DEF NotesFit
  <2>8. noticeTrail' \in SUBSET [of : Outgoing, delivered : BOOLEAN]
    BY <1>0, <1>4 DEF CallsTyped
  <2> QED BY <1>0, <2>2, <2>5, <2>6, <2>7, <2>8, CallMovesKeep
<1> QED BY <1>3, <1>4 DEF NoteDelivery

\* Who acts was asked; whom it was told a refusal had no time left to act in.
LEMMA ActedCalls ==
  ASSUME CallsInv, NEW c \in Outgoing, TargetActs(c)
  PROVE  CallsInv'
<1>0. /\ CallsTyped /\ UNCHANGED <<outbound, noticeTrail>> /\ actedOn' = actedOn \cup {c}
      /\ outbound[c].to # "none" /\ outbound[c].told # "refused"
  <2>1. outbound[c].at = "sending" => outbound[c].told = "nothing"
    BY DEF CallsInv, CallFits
  <2> QED BY <2>1 DEF CallsInv, TargetActs
<1>1. CallsTyped'
  BY <1>0 DEF CallsTyped
<1>2. ASSUME NEW d \in Outgoing PROVE CallFits(d)' /\ NotesFit(d)'
  <2>1. CallFits(d) /\ NotesFit(d) /\ NotesOf(d)' = NotesOf(d)
    BY <1>0 DEF CallsInv, NotesOf
  <2>2. NotesFit(d)'
    BY <1>0, <2>1 DEF NotesFit
  <2>3. CallFits(d)'
    BY <1>0, <2>1 DEF CallFits, GatewayFits
  <2> QED BY <2>2, <2>3
<1> QED BY <1>1, <1>2 DEF CallsInv

\* What no call is touched by.
LEMMA CallsRest ==
  ASSUME CallsInv, UNCHANGED <<outbound, actedOn, noticeTrail>>
  PROVE  CallsInv'
<1>1. CallsTyped'
  BY DEF CallsInv, CallsTyped
<1>2. ASSUME NEW d \in Outgoing PROVE CallFits(d)' /\ NotesFit(d)'
  <2>1. CallFits(d) /\ NotesFit(d) /\ NotesOf(d)' = NotesOf(d)
    BY DEF CallsInv, NotesOf
  <2>2. NotesFit(d)'
    BY <2>1 DEF NotesFit
  <2>3. CallFits(d)'
    BY <2>1 DEF CallFits, GatewayFits
  <2> QED BY <2>2, <2>3
<1> QED BY <1>1, <1>2 DEF CallsInv

LEMMA CallsStep ==
  ASSUME CallsInv, [OutboundNext]_outboundVars PROVE CallsInv'
<1>1. CASE UNCHANGED outboundVars
  BY <1>1, CallsRest DEF outboundVars
<1>2. ASSUME NEW c \in Outgoing,
             \/ SubmitTicket(c) \/ BuildNotice(c) \/ SendNotice(c) \/ InvokeController(c)
             \/ TargetActs(c) \/ AnswerArrives(c) \/ TransportFails(c) \/ CallIsCancelled(c)
             \/ NoteDelivery(c)
      PROVE  CallsInv'
  BY <1>2, BeginningsKeepCalls, AnswersKeepCalls, CancelledCalls, NotedCalls, ActedCalls
<1>3. CASE AnalysisMoves \/ RoutersClose
  BY <1>3, CallsRest DEF AnalysisMoves, RoutersClose
<1> QED BY <1>1, <1>2, <1>3 DEF OutboundNext

\* The invariant says what callers may rely on.
LEMMA CallsAreTrue ==
  ASSUME CallsInv PROVE CallsAreSound
<1>1. OutcomesAreTrue /\ LoadIsNotFinal /\ SentAreCounted
  BY DEF CallsInv, CallFits, OutcomesAreTrue, LoadIsNotFinal, SentAreCounted, TargetOf
<1>2. NoticesAreNoted
  <2>1. \A n \in noticeTrail : n.of \in Outgoing /\ n.delivered \in BOOLEAN /\ n \in NotesOf(n.of)
    BY DEF CallsInv, CallsTyped, NotesOf
  <2>2. \A n, o \in noticeTrail : n.of = o.of => n = o
    <3> SUFFICES ASSUME NEW n \in noticeTrail, NEW o \in noticeTrail, n.of = o.of PROVE n = o
      OBVIOUS
    <3>1. n.of \in Outgoing /\ n \in NotesOf(n.of) /\ o \in NotesOf(n.of)
      BY <2>1
    <3> QED BY <3>1 DEF CallsInv, NotesFit
  <2>3. \A n \in noticeTrail : /\ n.delivered => outbound[n.of].told = "success"
                               /\ ~n.delivered => outbound[n.of].told = "error"
    BY <2>1 DEF CallsInv, NotesFit
  <2>4. \A c \in Outgoing :
          TargetOf(c) \in Channels /\ outbound[c].at = "ended"
            /\ outbound[c].told \in {"success", "error"} => \E n \in noticeTrail : n.of = c
    BY DEF CallsInv, NotesFit, NotesOf, TargetOf
  <2> QED BY <2>2, <2>3, <2>4 DEF NoticesAreNoted
<1> QED BY <1>1, <1>2 DEF CallsAreSound

\* Callers are told what became of their calls, for all calls, vendors, channels and
\* answers: a success was one (but for Teams), a refusal is final and never a sign of load,
\* each call sent is counted once as what was told, and the trail has each notice once.
THEOREM CallsAlwaysSound ==
  CallsStart /\ [][OutboundNext]_outboundVars => []CallsAreSound
<1>1. CallsStart => CallsInv
  BY CallsBegin
<1>2. CallsInv /\ [OutboundNext]_outboundVars => CallsInv'
  BY CallsStep
<1>3. CallsInv => CallsAreSound
  BY CallsAreTrue
<1> QED BY <1>1, <1>2, <1>3, PTL

----------------------------------------------------------------------------
(* The controller of the range.                                               *)

Doing == {"execution", "rollback"}
OrderSteps == {"idle", "checked", "posting", "left", "ended"}
OrderRecord == [ask : OrderAsk, at : OrderSteps, version : Nat, landed : BOOLEAN]
PlanRecord ==
  [status : Statuses, version : Nat, created_by : ShopOperator \cup {NoName},
   approved_by : ShopOperator \cup {NoName}, manifest : Nat,
   keys : [Phases -> OrderKey \cup {NoName}]]
PlanEntry == [status : Statuses, by : ShopOperator]
ShopPost == [request : Directive, stage : Doing]

ControllerTyped ==
  /\ plan \in PlanRecord /\ planTrail \in Seq(PlanEntry) /\ scenarioFile \in Nat
  /\ order \in [Directive -> OrderRecord] /\ shop \in Seq(ShopPost)

\* The statuses from the claim of a phase on.
PhaseFrom(doing) ==
  CASE doing = "execution" -> {"EXECUTING", "EXECUTED", "FAILED", "ROLLING_BACK", "ROLLED_BACK",
                               "ROLLBACK_FAILED"}
    [] doing = "rollback" -> {"ROLLING_BACK", "ROLLED_BACK", "ROLLBACK_FAILED"}

PlanFits ==
  /\ TrailTellsPlan
  /\ plan.status = "ABSENT" <=> plan.version = 0
  /\ plan.status \notin {"ABSENT", "DRAFT"} => plan.approved_by \notin {NoName, plan.created_by}
  /\ ResultsWereReached

\* Who may still post, or has posted, holds the key of its phase, and the phase was begun.
KeyHeld(r) ==
  /\ plan.keys[order[r].ask.stage] = order[r].ask.key
  /\ plan.status \in PhaseFrom(order[r].ask.stage)

OrderFits(r) ==
  /\ order[r].at \in {"checked", "posting", "left"} \/ order[r].landed => order[r].ask.stage \in Doing
  /\ order[r].at \in {"posting", "left"} \/ order[r].landed => KeyHeld(r)
  /\ order[r].landed => Posted(order[r].ask.stage) # {}

PostFits(i) ==
  /\ shop[i].stage = order[shop[i].request].ask.stage
  /\ order[shop[i].request].landed
  /\ shop[i].stage = "rollback" => \E j \in 1..i - 1 : shop[j].stage = "execution"

ControllerInv ==
  /\ ControllerTyped /\ PlanFits
  /\ \A r \in Directive : OrderFits(r)
  /\ \A i \in DOMAIN shop : PostFits(i)

\* The first state, whatever is asked for.
ControllerStart ==
  /\ ControllerInit
  /\ order \in [Directive -> [ask : OrderAsk, at : {"idle"}, version : {0}, landed : {FALSE}]]
----------------------------------------------------------------------------
LEMMA ControllerBegins ==
  ASSUME ControllerStart PROVE ControllerInv
<1>1. /\ plan.status = "ABSENT" /\ plan.version = 0 /\ plan.created_by = NoName
      /\ plan.approved_by = NoName /\ plan.manifest = 0 /\ plan.keys = [p \in Phases |-> NoName]
      /\ planTrail = <<>> /\ shop = <<>>
  BY DEF ControllerStart, ControllerInit, NoPlan
<1>2. plan \in PlanRecord
  <2>1. [p \in Phases |-> NoName] \in [Phases -> OrderKey \cup {NoName}]
    OBVIOUS
  <2> QED BY <2>1 DEF ControllerStart, ControllerInit, NoPlan, PlanRecord, Statuses
<1>3. order \in [Directive -> OrderRecord]
  <2> DEFINE A == OrderAsk
  <2>1. order \in [Directive -> [ask : A, at : {"idle"}, version : {0}, landed : {FALSE}]]
    BY DEF ControllerStart
  <2>2. ASSUME NEW r \in Directive PROVE order[r] \in OrderRecord
    <3>1. order[r] \in [ask : A, at : {"idle"}, version : {0}, landed : {FALSE}]
      BY <2>1
    <3>2. "idle" \in OrderSteps /\ 0 \in Nat /\ FALSE \in BOOLEAN
      BY DEF OrderSteps
    <3>3. PICK a \in A : order[r] = [ask |-> a, at |-> "idle", version |-> 0, landed |-> FALSE]
      <4> HIDE DEF A
      <4>1. order[r] = [ask |-> order[r].ask, at |-> "idle", version |-> 0, landed |-> FALSE]
            /\ order[r].ask \in A
        BY <3>1
      <4> QED BY <4>1
    <3>4. [ask |-> a, at |-> "idle", version |-> 0, landed |-> FALSE] \in OrderRecord
      BY <3>2, <3>3 DEF OrderRecord
    <3> QED BY <3>3, <3>4
  <2>3. order = [r \in Directive |-> order[r]]
    BY <2>1
  <2> QED BY <2>2, <2>3
<1>4. ControllerTyped
  BY <1>1, <1>2, <1>3 DEF ControllerTyped, ControllerStart, ControllerInit
<1>5. PlanFits
  BY <1>1 DEF PlanFits, TrailTellsPlan, ResultsWereReached
<1>6. \A r \in Directive : OrderFits(r)
  BY DEF OrderFits, ControllerStart
<1>7. \A i \in DOMAIN shop : PostFits(i)
  BY <1>1
<1> QED BY <1>4, <1>5, <1>6, <1>7 DEF ControllerInv

\* Where a request is, and what it knows of its claim and its post.
OrderBecomes(r, at, version, landed) ==
  /\ order' \in [Directive -> OrderRecord]
  /\ order'[r].ask = order[r].ask /\ order'[r].at = at
  /\ order'[r].version = version /\ order'[r].landed = landed
  /\ \A s \in Directive \ {r} : order'[s] = order[s]

OneOrder(r) ==
  /\ order' = [s \in Directive |-> order'[s]]
  /\ \A s \in Directive \ {r} : order'[s] = order[s]

LEMMA OrderMoves ==
  ASSUME ControllerTyped, NEW r \in Directive, NEW at \in OrderSteps, NEW version \in Nat,
         NEW landed \in BOOLEAN,
         OneOrder(r),
         order'[r] = [ask |-> order[r].ask, at |-> at, version |-> version, landed |-> landed]
  PROVE  OrderBecomes(r, at, version, landed)
<1>1. order \in [Directive -> OrderRecord] /\ order[r] \in OrderRecord
  BY DEF ControllerTyped
<1>2. order'[r] \in OrderRecord
  BY <1>1 DEF OrderRecord
<1>3. order' \in [Directive -> OrderRecord]
  BY <1>1, <1>2 DEF OneOrder
<1> QED BY <1>3 DEF OrderBecomes, OneOrder

LEMMA LeaveMoves ==
  ASSUME ControllerTyped, NEW r \in Directive, NEW at \in OrderSteps, Leave(r, at)
  PROVE  OrderBecomes(r, at, order[r].version, order[r].landed)
<1> DEFINE A == OrderAsk
           B == BOOLEAN
<1>1. order[r] \in [ask : A, at : OrderSteps, version : Nat, landed : B]
  BY DEF ControllerTyped, OrderRecord
<1>2. OneOrder(r) /\ order'[r] = [order[r] EXCEPT !.at = at]
  BY DEF ControllerTyped, OneOrder, Leave
<1>3. /\ order'[r] = [ask |-> order[r].ask, at |-> at, version |-> order[r].version,
                      landed |-> order[r].landed]
      /\ order[r].version \in Nat /\ order[r].landed \in B
  <2> HIDE DEF A, B
  <2> QED BY <1>1, <1>2
<1> QED BY <1>2, <1>3, OrderMoves

Claims(r, version) == order' = [order EXCEPT ![r].at = "posting", ![r].version = version]

LEMMA ClaimMoves ==
  ASSUME ControllerTyped, NEW r \in Directive, NEW version \in Nat, Claims(r, version)
  PROVE  OrderBecomes(r, "posting", version, order[r].landed)
<1> DEFINE A == OrderAsk
           B == BOOLEAN
<1>1. order[r] \in [ask : A, at : OrderSteps, version : Nat, landed : B]
  BY DEF ControllerTyped, OrderRecord
<1>2. OneOrder(r) /\ order'[r] = [order[r] EXCEPT !.at = "posting", !.version = version]
  BY DEF ControllerTyped, OneOrder, Claims
<1>3. /\ order'[r] = [ask |-> order[r].ask, at |-> "posting", version |-> version,
                      landed |-> order[r].landed]
      /\ order[r].landed \in B
  <2> HIDE DEF A, B
  <2> QED BY <1>1, <1>2
<1>4. "posting" \in OrderSteps
  BY DEF OrderSteps
<1> QED BY <1>2, <1>3, <1>4, OrderMoves

LEMMA LandingMoves ==
  ASSUME ControllerTyped, NEW r \in Directive, order' = [order EXCEPT ![r].landed = TRUE]
  PROVE  OrderBecomes(r, order[r].at, order[r].version, TRUE)
<1> DEFINE A == OrderAsk
           B == BOOLEAN
<1>1. order[r] \in [ask : A, at : OrderSteps, version : Nat, landed : B]
  BY DEF ControllerTyped, OrderRecord
<1>2. OneOrder(r) /\ order'[r] = [order[r] EXCEPT !.landed = TRUE]
  BY DEF ControllerTyped, OneOrder
<1>3. /\ order'[r] = [ask |-> order[r].ask, at |-> order[r].at, version |-> order[r].version,
                      landed |-> TRUE]
      /\ order[r].at \in OrderSteps /\ order[r].version \in Nat
  <2> HIDE DEF A, B
  <2> QED BY <1>1, <1>2
<1> QED BY <1>2, <1>3, OrderMoves
----------------------------------------------------------------------------
\* What may become of the row in one transaction.
RowMoves(newRow) ==
  \/ plan.status = "ABSENT" /\ newRow.status = "DRAFT"
  \/ \E p \in Phases :
       /\ plan.status = From(p) /\ newRow.status = To(p)
       /\ \A q \in Phases \ {p} : newRow.keys[q] = plan.keys[q]
  \/ \E p \in Doing, ok \in BOOLEAN :
       /\ plan.status = To(p) /\ newRow.status = EndOf(p, ok) /\ newRow.keys = plan.keys
       /\ ok => Posted(p) # {}

RowApproved(newRow) ==
  \/ newRow.status = "DRAFT"
  \/ newRow.approved_by \notin {NoName, newRow.created_by}

LEMMA PhaseSteps ==
  /\ From("approval") = "DRAFT" /\ From("execution") = "APPROVED" /\ From("rollback") = "EXECUTED"
  /\ To("approval") = "APPROVED" /\ To("execution") = "EXECUTING" /\ To("rollback") = "ROLLING_BACK"
  /\ EndOf("execution", TRUE) = "EXECUTED" /\ EndOf("execution", FALSE) = "FAILED"
  /\ EndOf("rollback", TRUE) = "ROLLED_BACK" /\ EndOf("rollback", FALSE) = "ROLLBACK_FAILED"
BY DEF From, To, EndOf

\* The steps a plan takes, spelt out.
LEMMA RowStatuses ==
  ASSUME NEW newRow, RowMoves(newRow)
  PROVE  /\ plan.status \in {"ABSENT", "DRAFT", "APPROVED", "EXECUTING", "EXECUTED", "ROLLING_BACK"}
         /\ plan.status = "ABSENT" => newRow.status = "DRAFT"
         /\ plan.status = "DRAFT" => newRow.status = "APPROVED"
         /\ plan.status = "APPROVED" => newRow.status = "EXECUTING"
         /\ plan.status = "EXECUTING" => newRow.status \in {"EXECUTED", "FAILED"}
         /\ plan.status = "EXECUTED" => newRow.status = "ROLLING_BACK"
         /\ plan.status = "ROLLING_BACK" => newRow.status \in {"ROLLED_BACK", "ROLLBACK_FAILED"}
         /\ newRow.status = "EXECUTED" => Posted("execution") # {}
         /\ newRow.status = "ROLLED_BACK" => Posted("rollback") # {}
<1>1. CASE plan.status = "ABSENT" /\ newRow.status = "DRAFT"
  BY <1>1
<1>2. ASSUME NEW p \in Phases, plan.status = From(p), newRow.status = To(p)
      PROVE  \/ plan.status = "DRAFT" /\ newRow.status = "APPROVED"
             \/ plan.status = "APPROVED" /\ newRow.status = "EXECUTING"
             \/ plan.status = "EXECUTED" /\ newRow.status = "ROLLING_BACK"
  <2>1. p = "approval" \/ p = "execution" \/ p = "rollback"
    BY DEF Phases
  <2>2. CASE p = "approval"
    BY <1>2, <2>2, PhaseSteps
  <2>3. CASE p = "execution"
    BY <1>2, <2>3, PhaseSteps
  <2>4. CASE p = "rollback"
    BY <1>2, <2>4, PhaseSteps
  <2> QED BY <2>1, <2>2, <2>3, <2>4
<1>3. ASSUME NEW p \in Doing, NEW ok \in BOOLEAN, plan.status = To(p), newRow.status = EndOf(p, ok),
             ok => Posted(p) # {}
      PROVE  \/ plan.status = "EXECUTING" /\ newRow.status = "EXECUTED" /\ Posted("execution") # {}
             \/ plan.status = "EXECUTING" /\ newRow.status = "FAILED"
             \/ plan.status = "ROLLING_BACK" /\ newRow.status = "ROLLED_BACK" /\ Posted("rollback") # {}
             \/ plan.status = "ROLLING_BACK" /\ newRow.status = "ROLLBACK_FAILED"
  <2>1. CASE p = "execution"
    BY <1>3, <2>1 DEF To, EndOf
  <2>2. CASE p = "rollback"
    BY <1>3, <2>2 DEF To, EndOf
  <2> QED BY <2>1, <2>2 DEF Doing
<1> QED BY <1>1, <1>2, <1>3 DEF RowMoves

\* A phase begun stays so, under its key.
LEMMA KeysStay ==
  ASSUME ControllerTyped, NEW newRow, RowMoves(newRow), NEW doing \in Doing, plan.status \in PhaseFrom(doing)
  PROVE  newRow.keys[doing] = plan.keys[doing] /\ newRow.status \in PhaseFrom(doing)
<1>1. newRow.status \in PhaseFrom(doing) /\ plan.status # "ABSENT"
  BY RowStatuses DEF PhaseFrom, Doing
<1>2. ASSUME NEW p \in Phases, plan.status = From(p) PROVE p # doing
  BY <1>2 DEF From, PhaseFrom, Doing, Phases
<1>3. doing \in Phases
  BY DEF Doing, Phases
<1> QED BY <1>1, <1>2, <1>3 DEF RowMoves

LEMMA TrailGrows ==
  ASSUME ControllerTyped, PlanFits, NEW newRow \in PlanRecord, NEW by \in ShopOperator, Record(newRow, by),
         RowMoves(newRow), newRow.version = plan.version + 1
  PROVE  planTrail' \in Seq(PlanEntry) /\ TrailTellsPlan'
<1> DEFINE e == [status |-> newRow.status, by |-> by]
<1>1. /\ planTrail \in Seq(PlanEntry) /\ e \in PlanEntry /\ planTrail' = Append(planTrail, e)
      /\ plan' = newRow /\ e.status = newRow.status
  BY DEF ControllerTyped, Record, PlanRecord, PlanEntry
<1>2. /\ Len(planTrail) = plan.version /\ plan.version \in Nat
      /\ plan.version > 0 => planTrail[plan.version].status = plan.status
      /\ \A i \in 1..Len(planTrail) - 1 :
           \/ \E p \in Phases : planTrail[i].status = From(p) /\ planTrail[i + 1].status = To(p)
           \/ \E p \in Phases \ {"approval"}, ok \in BOOLEAN :
                planTrail[i].status = To(p) /\ planTrail[i + 1].status = EndOf(p, ok)
  BY DEF PlanFits, TrailTellsPlan, ControllerTyped, PlanRecord
<1>3. plan.version > 0 =>
        \/ \E p \in Phases : plan.status = From(p) /\ newRow.status = To(p)
        \/ \E p \in Phases \ {"approval"}, ok \in BOOLEAN :
             plan.status = To(p) /\ newRow.status = EndOf(p, ok)
  <2>1. plan.version > 0 => plan.status # "ABSENT"
    BY <1>2 DEF PlanFits
  <2>2. Doing = Phases \ {"approval"}
    BY DEF Doing, Phases
  <2> QED BY <2>1, <2>2 DEF RowMoves
<1> HIDE DEF e
<1>4. /\ planTrail' \in Seq(PlanEntry) /\ Len(planTrail') = plan.version + 1
      /\ planTrail'[plan.version + 1] = e
      /\ \A i \in 1..plan.version : planTrail'[i] = planTrail[i]
  BY <1>1, <1>2
<1>5. ASSUME NEW i \in 1..Len(planTrail') - 1
      PROVE  \/ \E p \in Phases : planTrail'[i].status = From(p) /\ planTrail'[i + 1].status = To(p)
             \/ \E p \in Phases \ {"approval"}, ok \in BOOLEAN :
                  planTrail'[i].status = To(p) /\ planTrail'[i + 1].status = EndOf(p, ok)
  <2>1. CASE i = plan.version
    <3>1. planTrail'[i] = planTrail[plan.version] /\ planTrail'[i + 1] = e /\ plan.version > 0
      BY <1>2, <1>4, <2>1
    <3> QED BY <1>1, <1>2, <1>3, <3>1
  <2>2. CASE i # plan.version
    <3>2. i \in 1..Len(planTrail) - 1 /\ i \in 1..plan.version /\ i + 1 \in 1..plan.version
      <4>1. plan.version \in Nat /\ Len(planTrail) = plan.version /\ i \in 1..plan.version
        BY <1>2, <1>4
      <4> QED BY <2>2, <4>1
    <3>1. planTrail'[i] = planTrail[i] /\ planTrail'[i + 1] = planTrail[i + 1]
      BY <1>4, <3>2
    <3> QED BY <1>2, <3>1, <3>2
  <2> QED BY <2>1, <2>2
<1>6. plan'.version = plan.version + 1 /\ planTrail'[plan'.version].status = plan'.status
  BY <1>1, <1>4
<1> QED BY <1>2, <1>4, <1>5, <1>6 DEF TrailTellsPlan

----------------------------------------------------------------------------
\* A transaction that writes the row, as far as the row and its entry go.
LEMMA RowsAreFit ==
  ASSUME ControllerInv, NEW newRow \in PlanRecord, NEW by \in ShopOperator, Record(newRow, by), RowMoves(newRow),
         newRow.version = plan.version + 1, RowApproved(newRow), UNCHANGED shop
  PROVE  /\ plan' \in PlanRecord /\ planTrail' \in Seq(PlanEntry) /\ PlanFits'
         /\ \A s \in Doing : Posted(s)' = Posted(s)
<1>1. planTrail' \in Seq(PlanEntry) /\ TrailTellsPlan' /\ plan' = newRow
  BY TrailGrows DEF ControllerInv, Record
<1>2. newRow.status # "ABSENT" /\ newRow.version # 0
  <2>1. newRow.status # "ABSENT"
    BY RowStatuses
  <2>2. plan.version \in Nat
    BY DEF ControllerInv, ControllerTyped, PlanRecord
  <2> QED BY <2>1, <2>2
<1>3. \A s \in Doing : Posted(s)' = Posted(s)
  BY DEF Posted
<1>4. ResultsWereReached'
  <2>1. /\ newRow.status \in {"EXECUTED", "ROLLING_BACK", "ROLLED_BACK", "ROLLBACK_FAILED"} =>
             Posted("execution") # {}
        /\ newRow.status = "ROLLED_BACK" => Posted("rollback") # {}
    BY RowStatuses DEF ControllerInv, PlanFits, ResultsWereReached
  <2> QED BY <1>1, <1>3, <2>1 DEF ResultsWereReached, Doing
<1>5. plan'.status \notin {"ABSENT", "DRAFT"} => plan'.approved_by \notin {NoName, plan'.created_by}
  BY <1>1 DEF RowApproved
<1> QED BY <1>1, <1>2, <1>3, <1>4, <1>5 DEF PlanFits

\* Requests that stay where they are fit on, whatever becomes of the row.
LEMMA OthersFit ==
  ASSUME ControllerInv, NEW newRow, RowMoves(newRow), plan' = newRow, UNCHANGED shop,
         NEW r \in Directive, order'[r] = order[r]
  PROVE  OrderFits(r)'
<1>1. OrderFits(r) /\ ControllerTyped
  BY DEF ControllerInv
<1>2. Posted(order[r].ask.stage)' = Posted(order[r].ask.stage)
  BY DEF Posted
<1>3. order[r].ask.stage \in Doing /\ KeyHeld(r) => KeyHeld(r)'
  BY <1>1, KeysStay DEF KeyHeld
<1> QED BY <1>1, <1>2, <1>3 DEF OrderFits

\* A request moves on, and with it the row; or the row stays.
LEMMA PostsFit ==
  ASSUME ControllerInv, UNCHANGED shop, NEW r \in Directive,
         \A s \in Directive \ {r} : order'[s] = order[s],
         order'[r].ask = order[r].ask, order'[r].landed = order[r].landed
  PROVE  \A i \in DOMAIN shop' : PostFits(i)'
<1>1. \A s \in Directive : order'[s].ask = order[s].ask /\ order'[s].landed = order[s].landed
  OBVIOUS
<1>2. ASSUME NEW i \in DOMAIN shop PROVE PostFits(i)'
  <2>1. PostFits(i) /\ shop \in Seq(ShopPost)
    BY <1>2 DEF ControllerInv, ControllerTyped
  <2>2. shop[i] \in ShopPost
    BY <1>2, <2>1
  <2>3. shop[i].request \in Directive
    BY <2>2 DEF ShopPost
  <2> QED BY <1>1, <2>1, <2>3 DEF PostFits
<1> QED BY <1>2

LEMMA RowsMove ==
  ASSUME ControllerInv, NEW r \in Directive, NEW at \in OrderSteps, NEW version,
         OrderBecomes(r, at, version, order[r].landed), UNCHANGED <<shop, scenarioFile>>,
         NEW newRow \in PlanRecord, Record(newRow, order[r].ask.by), RowMoves(newRow),
         newRow.version = plan.version + 1, RowApproved(newRow), OrderFits(r)'
  PROVE  ControllerInv'
<1>1. order[r].ask.by \in ShopOperator
  BY DEF ControllerInv, ControllerTyped, OrderRecord, OrderAsk
<1>2. plan' \in PlanRecord /\ planTrail' \in Seq(PlanEntry) /\ PlanFits' /\ plan' = newRow
  BY <1>1, RowsAreFit DEF Record
<1>3. \A s \in Directive : OrderFits(s)'
  BY <1>2, OthersFit DEF OrderBecomes
<1>4. \A i \in DOMAIN shop' : PostFits(i)'
  BY PostsFit DEF OrderBecomes
<1>5. ControllerTyped'
  BY <1>2 DEF ControllerInv, ControllerTyped, OrderBecomes
<1> QED BY <1>2, <1>3, <1>4, <1>5 DEF ControllerInv

LEMMA RowsRest ==
  ASSUME ControllerInv, NEW r \in Directive, NEW at, NEW version,
         OrderBecomes(r, at, version, order[r].landed),
         UNCHANGED <<shop, scenarioFile, plan, planTrail>>, OrderFits(r)'
  PROVE  ControllerInv'
<1>2. PlanFits'
  BY DEF ControllerInv, PlanFits, TrailTellsPlan, ResultsWereReached, Posted
<1>3. ASSUME NEW s \in Directive, s # r PROVE OrderFits(s)'
  BY <1>3 DEF ControllerInv, OrderBecomes, OrderFits, KeyHeld, Posted
<1>4. \A i \in DOMAIN shop' : PostFits(i)'
  BY PostsFit DEF OrderBecomes
<1>5. ControllerTyped'
  BY DEF ControllerInv, ControllerTyped, OrderBecomes
<1> QED BY <1>2, <1>3, <1>4, <1>5 DEF ControllerInv
----------------------------------------------------------------------------
Drafted(by, file) ==
  [NoPlan EXCEPT !.status = "DRAFT", !.version = 1, !.created_by = by, !.manifest = file]

LEMMA DraftedIs ==
  ASSUME NEW by, NEW file
  PROVE  Drafted(by, file) = [status |-> "DRAFT", version |-> 1, created_by |-> by,
                              approved_by |-> NoName, manifest |-> file,
                              keys |-> [p \in Phases |-> NoName]]
<1> DEFINE K == [p \in Phases |-> NoName]
<1>1. NoPlan = [status |-> "ABSENT", version |-> 0, created_by |-> NoName, approved_by |-> NoName,
                manifest |-> 0, keys |-> K]
  BY DEF NoPlan
<1> DEFINE N == {NoName}
           Q == {K}
           S == {"ABSENT"}
<1>2. NoPlan \in [status : S, version : Nat, created_by : N, approved_by : N, manifest : Nat, keys : Q]
  BY <1>1
<1>3. NoPlan.approved_by = NoName /\ NoPlan.keys = K
  BY <1>1
<1> HIDE DEF K, N, Q, S
<1> DEFINE d == Drafted(by, file)
<1>5. d = [NoPlan EXCEPT !.status = "DRAFT", !.version = 1, !.created_by = by, !.manifest = file]
  BY DEF Drafted
<1> HIDE DEF d
<1>4. d = [status |-> "DRAFT", version |-> 1, created_by |-> by,
                           approved_by |-> NoPlan.approved_by, manifest |-> file,
                           keys |-> NoPlan.keys]
  BY <1>2, <1>5
<1> QED BY <1>3, <1>4 DEF K, d

LEMMA CreationKeeps ==
  ASSUME ControllerInv, NEW r \in Directive, CreatePlan(r)
  PROVE  ControllerInv'
<1>0. /\ ControllerTyped /\ OrderFits(r) /\ order[r] \in OrderRecord /\ order[r].at = "idle"
      /\ order[r].ask.stage = "creation" /\ UNCHANGED <<scenarioFile, shop>>
      /\ Leave(r, "ended") /\ "ended" \in OrderSteps
  BY DEF ControllerInv, ControllerTyped, CreatePlan, OrderSteps
<1>1. OrderBecomes(r, "ended", order[r].version, order[r].landed)
  BY <1>0, LeaveMoves
<1>2. ~order[r].landed
  BY <1>0 DEF OrderFits, Doing
<1>3. OrderFits(r)'
  BY <1>1, <1>2 DEF OrderBecomes, OrderFits
<1>4. CASE plan.status = "ABSENT"
  <2> DEFINE by == order[r].ask.by
             newRow == Drafted(by, scenarioFile)
  <2>1. Record(newRow, by)
    BY <1>4 DEF CreatePlan, Drafted
  <2>2. by \in ShopOperator /\ scenarioFile \in Nat
    BY <1>0 DEF ControllerTyped, OrderRecord, OrderAsk
  <2>3. newRow \in PlanRecord /\ newRow.status = "DRAFT" /\ newRow.version = 1
    BY <2>2, DraftedIs DEF PlanRecord, Statuses
  <2>4. RowMoves(newRow) /\ RowApproved(newRow) /\ newRow.version = plan.version + 1
    BY <1>0, <1>4, <2>3 DEF RowMoves, RowApproved, ControllerInv, PlanFits
  <2> HIDE DEF newRow
  <2> QED BY <1>0, <1>1, <1>3, <2>1, <2>3, <2>4, RowsMove
<1>5. CASE plan.status # "ABSENT"
  <2>1. UNCHANGED <<plan, planTrail>>
    BY <1>5 DEF CreatePlan
  <2> QED BY <1>0, <1>1, <1>3, <2>1, RowsRest
<1> QED BY <1>4, <1>5

\* The row a claim leaves.
LEMMA BegunIs ==
  ASSUME ControllerTyped, NEW r \in Directive, order[r].ask.stage \in Phases
  PROVE  LET ask == order[r].ask IN
         /\ Begun(r) \in PlanRecord
         /\ Begun(r).status = To(ask.stage) /\ Begun(r).version = plan.version + 1
         /\ Begun(r).created_by = plan.created_by
         /\ Begun(r).approved_by = IF ask.stage = "approval" THEN ask.by ELSE plan.approved_by
         /\ Begun(r).keys[ask.stage] = ask.key
         /\ \A q \in Phases \ {ask.stage} : Begun(r).keys[q] = plan.keys[q]
<1> DEFINE doing == order[r].ask.stage
           key == order[r].ask.key
           by == order[r].ask.by
           K == [Phases -> OrderKey \cup {NoName}]
           O == ShopOperator \cup {NoName}
           held == [plan.keys EXCEPT ![doing] = key]
           approver == IF doing = "approval" THEN by ELSE plan.approved_by
           b == Begun(r)
<1>1. key \in OrderKey /\ by \in ShopOperator /\ doing \in Phases
  <2>1. order[r] \in OrderRecord
    BY DEF ControllerTyped
  <2>2. order[r].ask \in OrderAsk
    BY <2>1 DEF OrderRecord
  <2> QED BY <2>2 DEF OrderAsk
<1>2. plan \in [status : Statuses, version : Nat, created_by : O, approved_by : O, manifest : Nat, keys : K]
  BY DEF ControllerTyped, PlanRecord
<1>3. plan.keys \in K /\ plan.version \in Nat /\ plan.approved_by \in O /\ plan.created_by \in O
      /\ plan.manifest \in Nat
  BY <1>2
<1>4. held \in K /\ held[doing] = key /\ \A q \in Phases \ {doing} : held[q] = plan.keys[q]
  BY <1>1, <1>3
<1>5. To(doing) \in Statuses /\ approver \in O /\ plan.version + 1 \in Nat
  <2>1. To(doing) \in Statuses
    BY <1>1, PhaseSteps DEF Phases, Statuses
  <2> QED BY <1>1, <1>3, <2>1
<1>6. b = [plan EXCEPT !.status = To(doing), !.version = plan.version + 1, !.keys = held,
                       !.approved_by = approver]
  <2>1. plan.keys = plan.keys
    OBVIOUS
  <2> QED BY <1>2 DEF Begun
<1> HIDE DEF b, K, O, held, approver
<1>7. b = [status |-> To(doing), version |-> plan.version + 1, created_by |-> plan.created_by,
           approved_by |-> approver, manifest |-> plan.manifest, keys |-> held]
  BY <1>2, <1>6
<1>8. b \in PlanRecord
  <2>1. b \in [status : Statuses, version : Nat, created_by : O, approved_by : O, manifest : Nat, keys : K]
    BY <1>3, <1>4, <1>5, <1>7
  <2> QED BY <2>1 DEF PlanRecord, K, O
<1>9. /\ b.status = To(doing) /\ b.version = plan.version + 1 /\ b.created_by = plan.created_by
      /\ b.approved_by = approver /\ b.keys = held
  BY <1>7
<1> QED BY <1>4, <1>8, <1>9 DEF b, approver

\* A claim moves the row as the protocol says, and holds its key.
LEMMA BegunMoves ==
  ASSUME ControllerInv, NEW r \in Directive, order[r].ask.stage \in Phases, MayBegin(r)
  PROVE  /\ Begun(r) \in PlanRecord /\ Begun(r).version = plan.version + 1
         /\ RowMoves(Begun(r)) /\ RowApproved(Begun(r))
         /\ order[r].ask.stage \in Doing => Begun(r).keys[order[r].ask.stage] = order[r].ask.key
                                           /\ Begun(r).status \in PhaseFrom(order[r].ask.stage)
<1> DEFINE doing == order[r].ask.stage
           b == Begun(r)
<1>0. ControllerTyped /\ PlanFits
  BY DEF ControllerInv
<1>1. /\ b \in PlanRecord
      /\ b.status = To(doing) /\ b.version = plan.version + 1
      /\ b.created_by = plan.created_by
      /\ b.approved_by = IF doing = "approval" THEN order[r].ask.by ELSE plan.approved_by
      /\ b.keys[doing] = order[r].ask.key
      /\ \A q \in Phases \ {doing} : b.keys[q] = plan.keys[q]
  BY <1>0, BegunIs
<1>2. /\ plan.status = From(doing)
      /\ doing = "approval" => order[r].ask.by # plan.created_by
  BY DEF MayBegin
<1>3. order[r].ask.by # NoName
  <2>1. order[r] \in OrderRecord
    BY <1>0 DEF ControllerTyped
  <2>2. order[r].ask \in OrderAsk
    BY <2>1 DEF OrderRecord
  <2>3. order[r].ask.by \in ShopOperator
    BY <2>2 DEF OrderAsk
  <2> QED BY <2>3, ControllerAssumption DEF ControllerAssumption
<1> HIDE DEF b
<1>4. RowMoves(b)
  BY <1>1, <1>2 DEF RowMoves
<1>5. RowApproved(b)
  <2>1. CASE doing = "approval"
    BY <1>1, <1>2, <1>3, <2>1 DEF RowApproved
  <2>2. CASE doing # "approval"
    <3>1. plan.status \notin {"ABSENT", "DRAFT"}
      BY <1>2, <2>2, PhaseSteps DEF Phases
    <3>2. plan.approved_by \notin {NoName, plan.created_by}
      BY <1>0, <3>1 DEF PlanFits
    <3> QED BY <1>1, <2>2, <3>2 DEF RowApproved
  <2> QED BY <2>1, <2>2
<1>6. doing \in Doing => b.status \in PhaseFrom(doing)
  BY <1>1, PhaseSteps DEF PhaseFrom, Doing
<1> QED BY <1>1, <1>4, <1>5, <1>6 DEF b

LEMMA ApprovalKeeps ==
  ASSUME ControllerInv, NEW r \in Directive, ApprovePlan(r)
  PROVE  ControllerInv'
<1>0. /\ ControllerTyped /\ OrderFits(r) /\ order[r].at = "idle" /\ order[r].ask.stage = "approval"
      /\ UNCHANGED <<scenarioFile, shop>> /\ Leave(r, "ended") /\ "ended" \in OrderSteps
      /\ order[r].ask.stage \in Phases
  BY DEF ControllerInv, ApprovePlan, OrderSteps, Phases
<1>1. OrderBecomes(r, "ended", order[r].version, order[r].landed)
  BY <1>0, LeaveMoves
<1>2. ~order[r].landed
  BY <1>0 DEF OrderFits, Doing
<1>3. OrderFits(r)'
  BY <1>1, <1>2 DEF OrderBecomes, OrderFits
<1>4. CASE MayBegin(r) /\ Record(Begun(r), order[r].ask.by)
  <2>1. /\ Begun(r) \in PlanRecord /\ Begun(r).version = plan.version + 1
        /\ RowMoves(Begun(r)) /\ RowApproved(Begun(r))
    BY <1>0, <1>4, BegunMoves
  <2> QED BY <1>0, <1>1, <1>3, <1>4, <2>1, RowsMove
<1>5. CASE UNCHANGED <<plan, planTrail>>
  BY <1>0, <1>1, <1>3, <1>5, RowsRest
<1> QED BY <1>4, <1>5 DEF ApprovePlan

LEMMA CheckKeeps ==
  ASSUME ControllerInv, NEW r \in Directive, CheckManifest(r)
  PROVE  ControllerInv'
<1>0. /\ ControllerTyped /\ OrderFits(r) /\ order[r].at = "idle" /\ order[r].ask.stage \in Doing
      /\ UNCHANGED <<scenarioFile, shop, plan, planTrail>>
      /\ Leave(r, "checked") \/ Leave(r, "ended")
      /\ "ended" \in OrderSteps /\ "checked" \in OrderSteps
  BY DEF ControllerInv, CheckManifest, OrderSteps, Doing
<1>1. PICK at \in {"checked", "ended"} : OrderBecomes(r, at, order[r].version, order[r].landed)
  BY <1>0, LeaveMoves
<1>2. order[r].landed => KeyHeld(r)'
  BY <1>0, <1>1 DEF OrderFits, KeyHeld, OrderBecomes
<1>3. Posted(order[r].ask.stage)' = Posted(order[r].ask.stage)
  BY <1>0, <1>1 DEF Posted, OrderBecomes
<1>4. OrderFits(r)'
  BY <1>0, <1>1, <1>2, <1>3 DEF OrderBecomes, OrderFits
<1> QED BY <1>0, <1>1, <1>4, RowsRest

LEMMA BeginKeeps ==
  ASSUME ControllerInv, NEW r \in Directive, BeginPhase(r)
  PROVE  ControllerInv'
<1>0. /\ ControllerTyped /\ OrderFits(r) /\ order[r].at = "checked" /\ order[r].ask.stage \in Doing
      /\ UNCHANGED <<scenarioFile, shop>> /\ "ended" \in OrderSteps /\ "posting" \in OrderSteps
      /\ order[r].ask.stage \in Phases /\ plan.version \in Nat /\ plan.version + 1 \in Nat
  <2>1. ControllerTyped /\ OrderFits(r) /\ order[r].at = "checked" /\ UNCHANGED <<scenarioFile, shop>>
    BY DEF ControllerInv, BeginPhase
  <2> QED BY <2>1 DEF OrderFits, OrderSteps, Doing, Phases, ControllerTyped, PlanRecord
<1>1. CASE IsRepeat(r) /\ Claims(r, plan.version) /\ UNCHANGED <<plan, planTrail>>
  <2>1. OrderBecomes(r, "posting", plan.version, order[r].landed)
    BY <1>0, <1>1, ClaimMoves
  <2>2. KeyHeld(r)
    <3>1. To(order[r].ask.stage) \in PhaseFrom(order[r].ask.stage)
      BY <1>0, PhaseSteps DEF PhaseFrom, Doing
    <3> QED BY <1>1, <3>1 DEF IsRepeat, KeyHeld
  <2>3. KeyHeld(r)'
    BY <1>1, <2>1, <2>2 DEF KeyHeld, OrderBecomes
  <2>4. Posted(order[r].ask.stage)' = Posted(order[r].ask.stage)
    BY <1>0, <2>1 DEF Posted, OrderBecomes
  <2>5. OrderFits(r)'
    BY <1>0, <2>1, <2>3, <2>4 DEF OrderBecomes, OrderFits
  <2> QED BY <1>0, <1>1, <2>1, <2>5, RowsRest
<1>2. CASE MayBegin(r) /\ Record(Begun(r), order[r].ask.by) /\ Claims(r, plan.version + 1)
  <2>0. /\ Begun(r) \in PlanRecord /\ Begun(r).version = plan.version + 1
        /\ RowMoves(Begun(r)) /\ RowApproved(Begun(r))
        /\ Begun(r).keys[order[r].ask.stage] = order[r].ask.key
        /\ Begun(r).status \in PhaseFrom(order[r].ask.stage)
    BY <1>0, <1>2, BegunMoves
  <2>1. OrderBecomes(r, "posting", plan.version + 1, order[r].landed)
    BY <1>0, <1>2, ClaimMoves
  <2>2. plan' = Begun(r)
    BY <1>2 DEF Record
  <2>3. KeyHeld(r)'
    BY <2>0, <2>1, <2>2 DEF KeyHeld, OrderBecomes
  <2>4. Posted(order[r].ask.stage)' = Posted(order[r].ask.stage)
    BY <1>0, <2>1 DEF Posted, OrderBecomes
  <2>5. OrderFits(r)'
    BY <1>0, <2>1, <2>3, <2>4 DEF OrderBecomes, OrderFits
  <2> QED BY <1>0, <1>2, <2>0, <2>1, <2>5, RowsMove
<1>3. CASE Leave(r, "ended") /\ UNCHANGED <<plan, planTrail>>
  <2>1. OrderBecomes(r, "ended", order[r].version, order[r].landed)
    BY <1>0, <1>3, LeaveMoves
  <2>3. order[r].landed => KeyHeld(r)'
    BY <1>0, <1>3, <2>1 DEF KeyHeld, OrderBecomes, OrderFits
  <2>4. Posted(order[r].ask.stage)' = Posted(order[r].ask.stage)
    BY <1>0, <2>1 DEF Posted, OrderBecomes
  <2>5. OrderFits(r)'
    BY <1>0, <2>1, <2>3, <2>4 DEF OrderBecomes, OrderFits
  <2> QED BY <1>0, <1>3, <2>1, <2>5, RowsRest
<1> QED BY <1>1, <1>2, <1>3 DEF BeginPhase, Claims
----------------------------------------------------------------------------
\* A post lands: the shop has one more, after the ones it had.
LEMMA LandingKeeps ==
  ASSUME ControllerInv, NEW r \in Directive, ShopActs(r)
  PROVE  ControllerInv'
<1> DEFINE doing == order[r].ask.stage
           p == [request |-> r, stage |-> doing]
           n == Len(shop)
<1>0. /\ ControllerTyped /\ PlanFits /\ OrderFits(r) /\ order[r].at \in {"posting", "left"}
      /\ UNCHANGED <<plan, planTrail, scenarioFile>>
      /\ order' = [order EXCEPT ![r].landed = TRUE] /\ shop' = Append(shop, p)
  BY DEF ControllerInv, ShopActs
<1>1. doing \in Doing /\ KeyHeld(r)
  BY <1>0 DEF OrderFits
<1>2. OrderBecomes(r, order[r].at, order[r].version, TRUE)
  BY <1>0, LandingMoves
<1>3. p \in ShopPost /\ p.request = r /\ p.stage = doing
  BY <1>1 DEF ShopPost
<1>4. /\ shop \in Seq(ShopPost) /\ n \in Nat /\ shop' \in Seq(ShopPost)
      /\ DOMAIN shop = 1..n /\ DOMAIN shop' = 1..n + 1
      /\ shop'[n + 1] = p /\ \A i \in 1..n : shop'[i] = shop[i] /\ shop[i] \in ShopPost
  <2> HIDE DEF p
  <2>1. shop \in Seq(ShopPost)
    BY <1>0 DEF ControllerTyped
  <2> QED BY <1>0, <1>3, <2>1
<1> HIDE DEF p, n
<1>5. \A s \in Doing : Posted(s) \subseteq Posted(s)'
  BY <1>4 DEF Posted
<1>6. Posted(order[r].ask.stage)' # {}
  <2>1. order'[r].ask.stage = doing
    BY <1>2 DEF OrderBecomes
  <2> QED BY <1>3, <1>4, <2>1 DEF Posted
<1>7. ControllerTyped'
  BY <1>0, <1>2, <1>4 DEF ControllerTyped, OrderBecomes
<1>8. PlanFits'
  <2>1. TrailTellsPlan'
    BY <1>0 DEF PlanFits, TrailTellsPlan
  <2>2. ResultsWereReached'
    BY <1>0, <1>5 DEF PlanFits, ResultsWereReached, Doing
  <2> QED BY <1>0, <2>1, <2>2 DEF PlanFits
<1>9. ASSUME NEW s \in Directive PROVE OrderFits(s)'
  <2>1. CASE s = r
    <3>1. KeyHeld(r)'
      BY <1>0, <1>1, <1>2 DEF KeyHeld, OrderBecomes
    <3> QED BY <1>1, <1>2, <1>6, <2>1, <3>1 DEF OrderFits, OrderBecomes
  <2>2. CASE s # r
    <3>1. order'[s] = order[s] /\ OrderFits(s)
      BY <1>2, <2>2 DEF OrderBecomes, ControllerInv
    <3>2. KeyHeld(s) => KeyHeld(s)'
      BY <1>0, <3>1 DEF KeyHeld
    <3>3. Posted(order[s].ask.stage) # {} => Posted(order[s].ask.stage)' # {}
      BY <1>4, <3>1 DEF Posted
    <3> QED BY <3>1, <3>2, <3>3 DEF OrderFits
  <2> QED BY <2>1, <2>2
<1>10. ASSUME NEW i \in DOMAIN shop' PROVE PostFits(i)'
  <2>1. CASE i \in 1..n
    <3>1. PostFits(i) /\ shop'[i] = shop[i] /\ shop[i].request \in Directive
      BY <1>4, <2>1 DEF ControllerInv, ShopPost
    <3>2. /\ order'[shop[i].request].ask = order[shop[i].request].ask
          /\ order[shop[i].request].landed => order'[shop[i].request].landed
      BY <1>2, <3>1 DEF OrderBecomes
    <3>3. \A j \in 1..i - 1 : shop'[j] = shop[j]
      BY <1>4, <2>1
    <3> QED BY <3>1, <3>2, <3>3 DEF PostFits
  <2>2. CASE i = n + 1
    <3>1. doing = "rollback" => Posted("execution") # {}
      BY <1>0, <1>1 DEF KeyHeld, PhaseFrom, PlanFits, ResultsWereReached
    <3>2. doing = "rollback" => \E j \in 1..i - 1 : shop'[j].stage = "execution"
      BY <1>4, <2>2, <3>1 DEF Posted
    <3>3. shop'[i].request = r /\ shop'[i].stage = doing
      BY <1>3, <1>4, <2>2
    <3> QED BY <1>2, <3>2, <3>3 DEF PostFits, OrderBecomes
  <2> QED BY <1>4, <2>1, <2>2
<1> QED BY <1>7, <1>8, <1>9, <1>10 DEF ControllerInv

\* The row a phase ends with.
Finished(newRow, doing, ok) == [newRow EXCEPT !.status = EndOf(doing, ok), !.version = @ + 1]

LEMMA FinishedIs ==
  ASSUME NEW newRow \in PlanRecord, NEW doing \in Doing, NEW ok \in BOOLEAN
  PROVE  /\ Finished(newRow, doing, ok) \in PlanRecord
         /\ Finished(newRow, doing, ok).status = EndOf(doing, ok)
         /\ Finished(newRow, doing, ok).version = newRow.version + 1
         /\ Finished(newRow, doing, ok).created_by = newRow.created_by
         /\ Finished(newRow, doing, ok).approved_by = newRow.approved_by
         /\ Finished(newRow, doing, ok).keys = newRow.keys
<1> DEFINE K == [Phases -> OrderKey \cup {NoName}]
           O == ShopOperator \cup {NoName}
           b == Finished(newRow, doing, ok)
<1>1. newRow \in [status : Statuses, version : Nat, created_by : O, approved_by : O, manifest : Nat, keys : K]
  BY DEF PlanRecord
<1>2. newRow.keys \in K /\ newRow.version \in Nat /\ newRow.approved_by \in O /\ newRow.created_by \in O
      /\ newRow.manifest \in Nat /\ newRow.version + 1 \in Nat
  BY <1>1
<1>3. EndOf(doing, ok) \in Statuses
  BY PhaseSteps DEF Doing, Statuses
<1>4. b = [newRow EXCEPT !.status = EndOf(doing, ok), !.version = newRow.version + 1]
  BY <1>1 DEF Finished
<1> HIDE DEF b, K, O
<1>5. b = [status |-> EndOf(doing, ok), version |-> newRow.version + 1, created_by |-> newRow.created_by,
           approved_by |-> newRow.approved_by, manifest |-> newRow.manifest, keys |-> newRow.keys]
  BY <1>1, <1>4
<1>6. b \in PlanRecord
  <2>1. b \in [status : Statuses, version : Nat, created_by : O, approved_by : O, manifest : Nat, keys : K]
    BY <1>2, <1>3, <1>5
  <2> QED BY <2>1 DEF PlanRecord, K, O
<1>7. /\ b.status = EndOf(doing, ok) /\ b.version = newRow.version + 1 /\ b.created_by = newRow.created_by
      /\ b.approved_by = newRow.approved_by /\ b.keys = newRow.keys
  BY <1>5
<1> QED BY <1>6, <1>7 DEF b

LEMMA EndingKeeps ==
  ASSUME ControllerInv, NEW r \in Directive, EndPhase(r)
  PROVE  ControllerInv'
<1> DEFINE doing == order[r].ask.stage
           at == IF order[r].landed THEN "ended" ELSE "left"
<1>0. /\ ControllerTyped /\ PlanFits /\ OrderFits(r) /\ order[r].at = "posting"
      /\ UNCHANGED <<scenarioFile, shop>> /\ Leave(r, at) /\ at \in OrderSteps
  BY DEF ControllerInv, EndPhase, OrderSteps
<1>1. doing \in Doing /\ KeyHeld(r) /\ (order[r].landed => Posted(doing) # {})
  BY <1>0 DEF OrderFits
<1>2. OrderBecomes(r, at, order[r].version, order[r].landed)
  BY <1>0, LeaveMoves
<1>3. PICK ok \in BOOLEAN :
        /\ ok => order[r].landed
        /\ IF MayEnd(r) THEN Record(Finished(plan, doing, ok), order[r].ask.by)
           ELSE UNCHANGED <<plan, planTrail>>
  BY DEF EndPhase, Finished
<1>4. Posted(order[r].ask.stage)' = Posted(order[r].ask.stage)
  BY <1>0, <1>2 DEF Posted, OrderBecomes
<1> HIDE DEF at
<1>5. CASE MayEnd(r)
  <2> DEFINE newRow == Finished(plan, doing, ok)
  <2>1. plan \in PlanRecord /\ plan.status = To(doing)
    BY <1>0, <1>5 DEF ControllerTyped, MayEnd
  <2>2. /\ newRow \in PlanRecord /\ newRow.status = EndOf(doing, ok) /\ newRow.version = plan.version + 1
        /\ newRow.created_by = plan.created_by /\ newRow.approved_by = plan.approved_by
        /\ newRow.keys = plan.keys /\ Record(newRow, order[r].ask.by)
    BY <1>1, <1>3, <1>5, <2>1, FinishedIs
  <2> HIDE DEF newRow
  <2>3. RowMoves(newRow)
    BY <1>1, <1>3, <2>1, <2>2 DEF RowMoves
  <2>4. RowApproved(newRow)
    <3>1. plan.status \notin {"ABSENT", "DRAFT"}
      BY <1>1, <2>1, PhaseSteps DEF Doing
    <3> QED BY <1>0, <2>2, <3>1 DEF RowApproved, PlanFits
  <2>5. plan' = newRow
    BY <2>2 DEF Record
  <2>6. KeyHeld(r)'
    <3>1. newRow.keys[doing] = plan.keys[doing] /\ newRow.status \in PhaseFrom(doing)
      BY <1>0, <1>1, <2>3, KeysStay DEF KeyHeld
    <3>2. order'[r].ask = order[r].ask
      BY <1>2 DEF OrderBecomes
    <3> QED BY <1>1, <2>5, <3>1, <3>2 DEF KeyHeld
  <2>7. OrderFits(r)'
    <3>1. order'[r].ask = order[r].ask /\ order'[r].landed = order[r].landed
      BY <1>2 DEF OrderBecomes
    <3> QED BY <1>1, <1>4, <2>6, <3>1 DEF OrderFits
  <2> QED BY <1>0, <1>2, <2>2, <2>3, <2>4, <2>7, RowsMove
<1>6. CASE ~MayEnd(r)
  <2>1. UNCHANGED <<plan, planTrail>>
    BY <1>3, <1>6
  <2>2. order'[r].ask = order[r].ask /\ order'[r].landed = order[r].landed
    BY <1>2 DEF OrderBecomes
  <2>3. KeyHeld(r)'
    BY <1>1, <2>1, <2>2 DEF KeyHeld
  <2>5. OrderFits(r)'
    BY <1>1, <1>4, <2>2, <2>3 DEF OrderFits
  <2> QED BY <1>0, <1>2, <2>1, <2>5, RowsRest
<1> QED BY <1>5, <1>6

\* A restart ends requests, or leaves their posts on the way.
Dropped(r) == IF order[r].at = "posting" /\ ~order[r].landed THEN "left" ELSE "ended"

LEMMA RestartKeeps ==
  ASSUME ControllerInv, RestartController
  PROVE  ControllerInv'
<1>0. /\ ControllerTyped /\ PlanFits /\ UNCHANGED <<plan, planTrail, scenarioFile, shop>>
      /\ order' = [r \in Directive |->
                     IF order[r].at \in {"idle", "ended", "left"} THEN order[r]
                     ELSE [order[r] EXCEPT !.at = Dropped(r)]]
  BY DEF ControllerInv, RestartController, Dropped
<1>1. ASSUME NEW r \in Directive
      PROVE  /\ order'[r] \in OrderRecord
             /\ order'[r].ask = order[r].ask /\ order'[r].landed = order[r].landed
             /\ order'[r].at = order[r].at \/ order'[r].at = Dropped(r)
  <2>1. CASE order[r].at \in {"idle", "ended", "left"}
    BY <1>0, <2>1 DEF ControllerTyped
  <2>2. CASE order[r].at \notin {"idle", "ended", "left"}
    <3> DEFINE A == OrderAsk
               B == BOOLEAN
    <3>1. order[r] \in [ask : A, at : OrderSteps, version : Nat, landed : B]
      BY <1>0 DEF ControllerTyped, OrderRecord
    <3>2. order'[r] = [order[r] EXCEPT !.at = Dropped(r)] /\ Dropped(r) \in OrderSteps
      BY <1>0, <2>2 DEF Dropped, OrderSteps
    <3>3. order'[r] = [ask |-> order[r].ask, at |-> Dropped(r), version |-> order[r].version,
                       landed |-> order[r].landed]
          /\ order'[r] \in [ask : A, at : OrderSteps, version : Nat, landed : B]
      <4> HIDE DEF A, B
      <4> QED BY <3>1, <3>2
    <3> QED BY <3>3 DEF OrderRecord
  <2> QED BY <2>1, <2>2
<1>2. order' \in [Directive -> OrderRecord]
  <2>1. order' = [r \in Directive |-> order'[r]]
    BY <1>0
  <2> QED BY <1>1, <2>1
<1>3. ControllerTyped'
  BY <1>0, <1>2 DEF ControllerTyped
<1>4. PlanFits'
  BY <1>0 DEF PlanFits, TrailTellsPlan, ResultsWereReached, Posted
<1>5. ASSUME NEW r \in Directive PROVE OrderFits(r)'
  <2>1. OrderFits(r)
    BY DEF ControllerInv
  <2>2. /\ order'[r].ask = order[r].ask /\ order'[r].landed = order[r].landed
        /\ order'[r].at \in {"checked", "posting", "left"} => order[r].at \in {"checked", "posting", "left"}
        /\ order'[r].at \in {"posting", "left"} => order[r].at \in {"posting", "left"}
    BY <1>1 DEF Dropped
  <2>3. KeyHeld(r) => KeyHeld(r)'
    BY <1>0, <2>2 DEF KeyHeld
  <2>4. Posted(order[r].ask.stage)' = Posted(order[r].ask.stage)
    BY <1>0, <2>2 DEF Posted
  <2> QED BY <2>1, <2>2, <2>3, <2>4 DEF OrderFits
<1>6. ASSUME NEW i \in DOMAIN shop PROVE PostFits(i)'
  <2>1. PostFits(i) /\ shop \in Seq(ShopPost)
    BY <1>0, <1>6 DEF ControllerInv, ControllerTyped
  <2>2. shop[i] \in ShopPost
    BY <1>6, <2>1
  <2>3. shop[i].request \in Directive
    BY <2>2 DEF ShopPost
  <2> QED BY <1>0, <1>1, <2>1, <2>3 DEF PostFits
<1> QED BY <1>0, <1>3, <1>4, <1>5, <1>6 DEF ControllerInv

\* What touches neither the plan, nor requests, nor the shop.
LEMMA ControllerRests ==
  ASSUME ControllerInv, UNCHANGED <<plan, planTrail, order, shop>>, scenarioFile' \in Nat
  PROVE  ControllerInv'
<1>1. ControllerTyped'
  BY DEF ControllerInv, ControllerTyped
<1>2. PlanFits'
  BY DEF ControllerInv, PlanFits, TrailTellsPlan, ResultsWereReached, Posted
<1>3. ASSUME NEW r \in Directive PROVE OrderFits(r)'
  BY DEF ControllerInv, OrderFits, KeyHeld, Posted
<1>4. ASSUME NEW i \in DOMAIN shop' PROVE PostFits(i)'
  BY DEF ControllerInv, PostFits
<1> QED BY <1>1, <1>2, <1>3, <1>4 DEF ControllerInv

LEMMA ControllerStep ==
  ASSUME ControllerInv, [ControllerNext]_controllerVars
  PROVE  ControllerInv'
<1>0. scenarioFile \in Nat
  BY DEF ControllerInv, ControllerTyped
<1>1. CASE UNCHANGED controllerVars
  BY <1>0, <1>1, ControllerRests DEF controllerVars
<1>2. CASE \E r \in Directive :
             \/ CreatePlan(r) \/ ApprovePlan(r) \/ CheckManifest(r) \/ BeginPhase(r)
             \/ ShopActs(r) \/ EndPhase(r)
  BY <1>2, CreationKeeps, ApprovalKeeps, CheckKeeps, BeginKeeps, LandingKeeps, EndingKeeps
<1>3. CASE RestartController
  BY <1>3, RestartKeeps
<1>4. CASE CloseController \/ ScenarioChanges \/ HourPasses
  BY <1>0, <1>4, ControllerRests DEF CloseController, ScenarioChanges, HourPasses
<1> QED BY <1>1, <1>2, <1>3, <1>4 DEF ControllerNext

LEMMA ControllerKeepsWord ==
  ASSUME ControllerInv PROVE ControllerIsSound
<1>1. ASSUME NEW i \in DOMAIN shop
      PROVE  LET ask == order[shop[i].request].ask IN
             /\ plan.approved_by \notin {NoName, plan.created_by}
             /\ ask.key = plan.keys[ask.stage]
             /\ ask.stage = "rollback" => \E j \in 1..i - 1 : shop[j].stage = "execution"
  <2>1. PostFits(i) /\ shop \in Seq(ShopPost)
    BY <1>1 DEF ControllerInv, ControllerTyped
  <2>2. shop[i] \in ShopPost
    BY <1>1, <2>1
  <2>3. shop[i].request \in Directive
    BY <2>2 DEF ShopPost
  <2>4. KeyHeld(shop[i].request) /\ order[shop[i].request].ask.stage \in Doing
    BY <2>1, <2>3 DEF ControllerInv, OrderFits, PostFits
  <2>5. plan.status \notin {"ABSENT", "DRAFT"}
    BY <2>4 DEF KeyHeld, PhaseFrom, Doing
  <2>6. plan.approved_by \notin {NoName, plan.created_by}
    BY <2>5 DEF ControllerInv, PlanFits
  <2> QED BY <2>1, <2>4, <2>6 DEF KeyHeld, PostFits
<1> QED BY <1>1 DEF ControllerIsSound, ShopActsOnApproval, ControllerInv, PlanFits

\* The shop does only what another than the plan's author approved and under the key its
\* phase was claimed with, results were reached, and the trail tells each version: for all
\* requests, operators, keys and times, restarts and repeats.
THEOREM ControllerAlwaysSound ==
  ControllerStart /\ [][ControllerNext]_controllerVars => []ControllerIsSound
<1>1. ControllerStart => ControllerInv
  BY ControllerBegins
<1>2. ControllerInv /\ [ControllerNext]_controllerVars => ControllerInv'
  BY ControllerStep
<1>3. ControllerInv => ControllerIsSound
  BY ControllerKeepsWord
<1> QED BY <1>1, <1>2, <1>3, PTL
=============================================================================
