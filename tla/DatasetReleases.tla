--------------------------- MODULE DatasetReleases ---------------------------
(* Releases of evaluation datasets: a draft is created, reviewed by two      *)
(* people in two roles, and published; afterwards it stays as it is.  Every   *)
(* change of a release holds its row; the creation of one that does not       *)
(* exist holds nothing, and the indexes decide.  Each change commits with its *)
(* audit event, of which "happened" keeps the request and the revision.       *)
EXTENDS Naturals, FiniteSets

CONSTANTS
  DatasetRelease,
  Curation,     \* requests, repeats included
  NoCuration,
  Spectator     \* requests that read a release

ASSUME ReleaseAssumption == NoCuration \notin Curation

VARIABLES
  releases,     \* of each release: its row
  reviews,      \* reviews, and who asked for them
  rowHolder,    \* of each release: the request that holds its row
  happened,     \* audit events: the request, and the revision it made
  curating,     \* of each request: what it asks for, where it is, the row it read
  ruling,       \* of each request: its answer
  spectating    \* of each reader: where it is, and what it has read

releaseVars == <<releases, reviews, rowHolder, happened, curating, ruling, spectating>>

Role == {"DOMAIN", "PRIVACY"}

\* What can be asked of releases: A is a set of requests.  A creation expects nothing.
CurationAsks(A) ==
  \A a \in A : /\ a.kind \in {"create", "review", "publish"} /\ a.release \in DatasetRelease
               /\ a.role \in Role /\ a.dataset # "none" /\ a.expected \in Nat
               /\ a.kind = "create" => a.expected = 0

\* created and published are the requests that did it, at most one each.
NoRelease == [status |-> "absent", revision |-> 0, dataset |-> "none", by |-> "none",
               created |-> {}, published |-> {}]
Exists(d) == releases[d].status # "absent"
ReviewsOf(d) == {v \in reviews : v.release = d}
RolesOf(d) == {v.role : v \in ReviewsOf(d)}

\* What a repeat has in common with the request it repeats, besides the key.
CreationHash(ask) == <<ask.release, ask.dataset, ask.by>>
ReviewHash(ask) == <<ask.release, ask.role, ask.expected, ask.by>>
PublicationHash(ask) == <<ask.release, ask.expected, ask.by>>
SameCuration(ask, earlier) ==
  /\ ask.kind = earlier.kind
  /\ ask.key = earlier.key
  /\ CASE ask.kind = "create" -> CreationHash(ask) = CreationHash(earlier)
       [] ask.kind = "review" -> ReviewHash(ask) = ReviewHash(earlier)
       [] ask.kind = "publish" -> PublicationHash(ask) = PublicationHash(earlier)

\* Only an anonymised dataset without sensitive text is taken.
MayBeReleased(dataset) == dataset # "raw"

\* The request ends, and its transaction with it.
Rule(q, answer) ==
  /\ ruling' = [ruling EXCEPT ![q] = answer]
  /\ curating' = [curating EXCEPT ![q].at = "ended"]
  /\ rowHolder' = [d \in DatasetRelease |-> IF rowHolder[d] = q THEN NoCuration ELSE rowHolder[d]]

RefuseCuration(q) ==
  Rule(q, "refused") /\ UNCHANGED <<releases, reviews, happened, spectating>>
\* The same request was carried out before; another one under its key was not
\* meant.
RepeatCuration(q, earlier) ==
  /\ Rule(q, IF \E e \in earlier : SameCuration(curating[q].ask, e) THEN "repeated" ELSE "refused")
  /\ UNCHANGED <<releases, reviews, happened, spectating>>

\* The commit is done, whether its answer arrives or not.
CommitRelease(q, row) ==
  LET d == curating[q].ask.release
  IN /\ releases' = [releases EXCEPT ![d] = row]
     /\ happened' = happened \cup {[ask |-> curating[q].ask, revision |-> row.revision]}
     /\ \E answer \in {"done", "lost"} : Rule(q, answer)
     /\ UNCHANGED spectating

----------------------------------------------------------------------------
\* The row is read with its lock, which there is none to have of a new release.
LookUpRelease(q) ==
  LET ask == curating[q].ask
  IN /\ curating[q].at = "idle"
     /\ ask.kind = "create"
     /\ IF ~MayBeReleased(ask.dataset) THEN RefuseCuration(q)
        ELSE IF Exists(ask.release)
        THEN rowHolder[ask.release] = NoCuration /\ RepeatCuration(q, releases[ask.release].created)
        ELSE /\ curating' = [curating EXCEPT ![q].at = "inserting"]
             /\ UNCHANGED <<releases, reviews, rowHolder, happened, ruling, spectating>>

\* Whoever inserts second meets the primary key, or the index on the dataset's
\* version; a repeat that races is refused as well.
InsertRelease(q) ==
  LET ask == curating[q].ask
  IN /\ curating[q].at = "inserting"
     /\ IF Exists(ask.release) \/ \E d \in DatasetRelease : releases[d].dataset = ask.dataset
        THEN RefuseCuration(q)
        ELSE /\ CommitRelease(q, [status |-> "DRAFT", revision |-> 1, dataset |-> ask.dataset,
                                  by |-> ask.by, created |-> {ask}, published |-> {}])
             /\ UNCHANGED reviews

HoldRelease(q) ==
  LET d == curating[q].ask.release
  IN /\ curating[q].at = "idle"
     /\ curating[q].ask.kind # "create"
     /\ rowHolder[d] = NoCuration
     /\ IF Exists(d)
        THEN /\ rowHolder' = [rowHolder EXCEPT ![d] = q]
             /\ curating' = [curating EXCEPT ![q].at = "holding", ![q].row = releases[d]]
             /\ UNCHANGED <<releases, reviews, happened, ruling, spectating>>
        ELSE RefuseCuration(q)

MayReview(ask, row) ==
  /\ row.status = "DRAFT"
  /\ row.revision = ask.expected
  /\ ask.by # row.by

\* Indexes: one review of a release by each reviewer, and in each role.
ReviewFits(ask) ==
  \A v \in ReviewsOf(ask.release) : v.by # ask.by /\ v.role # ask.role

\* A review given before is found under its key, even when the release has been
\* published since.
Review(q) ==
  LET ask == curating[q].ask
      row == curating[q].row
      under == {v.ask : v \in {u \in ReviewsOf(ask.release) : u.ask.key = ask.key}}
  IN /\ curating[q].at = "holding"
     /\ ask.kind = "review"
     /\ IF under # {} THEN RepeatCuration(q, under)
        ELSE IF MayReview(ask, row) /\ ReviewFits(ask)
        THEN /\ reviews' = reviews \cup {[release |-> ask.release, by |-> ask.by,
                                          role |-> ask.role, ask |-> ask]}
             /\ CommitRelease(q, [row EXCEPT !.revision = @ + 1])
        ELSE RefuseCuration(q)

Publish(q) ==
  LET ask == curating[q].ask
      row == curating[q].row
  IN /\ curating[q].at = "holding"
     /\ ask.kind = "publish"
     /\ IF row.status = "PUBLISHED" THEN RepeatCuration(q, row.published)
        ELSE IF row.revision = ask.expected /\ RolesOf(ask.release) = Role
        THEN /\ CommitRelease(q, [row EXCEPT !.status = "PUBLISHED", !.revision = @ + 1,
                                             !.published = {ask}])
             /\ UNCHANGED reviews
        ELSE RefuseCuration(q)

CurationDrops(q) == curating[q].at \in {"inserting", "holding"} /\ RefuseCuration(q)

----------------------------------------------------------------------------
\* A reader takes the row, and then the reviews, without a lock.
SeeRow(x) ==
  /\ spectating[x].at = "idle"
  /\ \E d \in {e \in DatasetRelease : Exists(e)} :
       spectating' = [spectating EXCEPT ![x] = [at |-> "row", release |-> {d},
                                                row |-> releases[d], reviews |-> {}]]
  /\ UNCHANGED <<releases, reviews, rowHolder, happened, curating, ruling>>

SeeReviews(x) ==
  /\ spectating[x].at = "row"
  /\ \E d \in spectating[x].release :
       spectating' = [spectating EXCEPT ![x].at = "seen", ![x].reviews = ReviewsOf(d)]
  /\ UNCHANGED <<releases, reviews, rowHolder, happened, curating, ruling>>

SeeAgain(x) ==
  /\ spectating[x].at = "seen"
  /\ spectating' = [spectating EXCEPT ![x] = [at |-> "idle", release |-> {},
                                              row |-> NoRelease, reviews |-> {}]]
  /\ UNCHANGED <<releases, reviews, rowHolder, happened, curating, ruling>>

----------------------------------------------------------------------------
ReleasesInit ==
  /\ releases = [d \in DatasetRelease |-> NoRelease]
  /\ reviews = {}
  /\ rowHolder = [d \in DatasetRelease |-> NoCuration]
  /\ happened = {}
  /\ ruling = [q \in Curation |-> "none"]
  /\ spectating = [x \in Spectator |-> [at |-> "idle", release |-> {}, row |-> NoRelease,
                                        reviews |-> {}]]

ReleasesNext ==
  \/ \E q \in Curation : \/ LookUpRelease(q) \/ InsertRelease(q) \/ HoldRelease(q)
                         \/ Review(q) \/ Publish(q) \/ CurationDrops(q)
  \/ \E x \in Spectator : SeeRow(x) \/ SeeReviews(x) \/ SeeAgain(x)

----------------------------------------------------------------------------
ReleasesTypeOK ==
  /\ \A d \in DatasetRelease : /\ releases[d].status \in {"absent", "DRAFT", "PUBLISHED"}
                        /\ releases[d].revision \in Nat
                        /\ rowHolder[d] \in Curation \cup {NoCuration}
  /\ \A v \in reviews : v.release \in DatasetRelease /\ v.role \in Role
  /\ \A q \in Curation : curating[q].at \in {"idle", "inserting", "holding", "ended"}
  /\ \A q \in Curation : ruling[q] \in {"none", "done", "lost", "repeated", "refused"}
  /\ \A x \in Spectator : spectating[x].at \in {"idle", "row", "seen"}

\* Every review is of another person in another role and none of the one who
\* asked for the release; what is published has both roles.  It is what the
\* domain accepts.  dataset_release_store.py:87-193, dataset_release.py:97-113.
AcceptableRelease(row, seen) ==
  /\ \A v, w \in seen : v.by = w.by \/ v.role = w.role => v = w
  /\ \A v \in seen : v.by # row.by
  /\ row.status = "PUBLISHED" => {v.role : v \in seen} = Role

\* Revisions count the events, one for each change that was committed, by someone
\* who had seen the one before; one dataset version is one release; who hears of
\* a change is right.  dataset_release_store.py:38-193.
ReleasesAddUp ==
  /\ \A d \in DatasetRelease :
       {e.revision : e \in {f \in happened : f.ask.release = d}} = 1..releases[d].revision
  /\ \A e, f \in happened : e.ask.release = f.ask.release /\ e.revision = f.revision => e = f
  /\ \A e \in happened : e.revision = e.ask.expected + 1
  /\ \A d, e \in DatasetRelease : Exists(d) /\ releases[d].dataset = releases[e].dataset => d = e
  /\ \A q \in Curation :
       ruling[q] \in {"done", "repeated"} => \E e \in happened : SameCuration(curating[q].ask, e.ask)

\* What a reader puts together is a release the domain accepts, though the row
\* and the reviews are of different moments.  dataset_release_store.py:195-206.
SightsAreValid ==
  \A x \in Spectator :
    spectating[x].at = "seen" =>
      /\ AcceptableRelease(spectating[x].row, spectating[x].reviews)
      /\ Cardinality(spectating[x].reviews) >=
           spectating[x].row.revision - (IF spectating[x].row.status = "PUBLISHED" THEN 2 ELSE 1)

ReleaseIsSound ==
  /\ \A d \in DatasetRelease : AcceptableRelease(releases[d], ReviewsOf(d))
  /\ ReleasesAddUp /\ SightsAreValid

\* A published release stays as it is, its reviews too.
\* dataset_release_store.py:87-193.
PublishedStays ==
  [][\A d \in DatasetRelease :
       releases[d].status = "PUBLISHED" =>
         releases'[d] = releases[d] /\ ReviewsOf(d)' = ReviewsOf(d)]_releaseVars
=============================================================================
