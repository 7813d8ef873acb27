--------------------------- MODULE ServicesProofs ---------------------------
(* The components side by side keep what each of them keeps alone: a         *)
(* behaviour is about one part, and the others keep still.                    *)
EXTENDS MCServices, IncidentProofs, ComponentProofs, ProcessProofs

----------------------------------------------------------------------------
(* Side by side: a behaviour is about one part.                               *)

LEMMA OnlyIsPart ==
  ASSUME NEW p, Only(p)
  PROVE  part = p /\ part' = part
BY DEF Only

LEMMA PartsStay ==
  ASSUME [ServicesNext]_servicesVars PROVE part' = part
<1>1. CASE UNCHANGED servicesVars
  BY <1>1 DEF servicesVars
<1>2. CASE ServicesNext
  BY <1>2, OnlyIsPart DEF ServicesNext
<1> QED BY <1>1, <1>2

\* A step of a behaviour about one part is a step of that part.
LEMMA PartsMove ==
  ASSUME [ServicesNext]_servicesVars
  PROVE  /\ part = "runbooks" => [CatalogNext]_catalogVars
         /\ part = "grants" => [GrantsNext]_grantVars
         /\ part = "releases" => [ReleasesNext]_releaseVars
         /\ part = "workspaces" => [WorkspacesNext]_workspaceVars
         /\ part = "outbound" => [OutboundNext]_outboundVars
         /\ part = "controller" => [ControllerNext]_controllerVars
         /\ part = "configuration" => [ConfigurationNext]_configurationVars
         /\ part = "lifecycle" => [LifecycleNext]_lifecycleVars
         /\ part = "readiness" => [ReadinessNext]_readinessVars
         /\ part = "logins" => [SigningNext]_signingVars
         /\ part = "edge" => [EdgeNext]_edgeVars
         /\ part = "loops" => [LoopsNext]_loopVars
         /\ part = "monitoring" => [MonitoringNext]_monitoringVars
         /\ part = "toolcalls" => [CallsNext]_callVars
         /\ part = "reasoning" => [CausesNext]_causeVars
         /\ part = "investigation" => [InvestigationNext]_investigationVars
         /\ part = "report" => [GenerationNext]_generationVars
<1>1. CASE UNCHANGED servicesVars
  BY <1>1 DEF servicesVars
<1>2. CASE ServicesNext
  BY <1>2, OnlyIsPart DEF ServicesNext
<1> QED BY <1>1, <1>2

\* What administrators publish, what was told of readiness, loops and scrapes, and what the
\* agent noted does not change when others move.
LEMMA OthersStay ==
  ASSUME [ServicesNext]_servicesVars
  PROVE  /\ part # "runbooks" => UNCHANGED catalogVars
         /\ part # "releases" => UNCHANGED releaseVars
         /\ part # "readiness" => UNCHANGED readinessVars
         /\ part # "loops" => UNCHANGED loopVars
         /\ part # "monitoring" => UNCHANGED monitoringVars
         /\ part # "investigation" => UNCHANGED investigationVars
         /\ part # "report" => UNCHANGED generationVars
<1>1. CASE UNCHANGED servicesVars
  BY <1>1 DEF servicesVars
<1>2. ASSUME NEW p, Only(p)
      PROVE  /\ part # "runbooks" => UNCHANGED catalogVars
             /\ part # "releases" => UNCHANGED releaseVars
             /\ part # "readiness" => UNCHANGED readinessVars
             /\ part # "loops" => UNCHANGED loopVars
             /\ part # "monitoring" => UNCHANGED monitoringVars
             /\ part # "investigation" => UNCHANGED investigationVars
             /\ part # "report" => UNCHANGED generationVars
  BY <1>2 DEF Only
<1>3. CASE ServicesNext
  BY <1>2, <1>3 DEF ServicesNext
<1> QED BY <1>1, <1>3
----------------------------------------------------------------------------
\* The part that moves starts as it starts alone.
LEMMA CatalogStarts ==
  ASSUME ServicesInit, part = "runbooks" PROVE CatalogStart(AskedIn(Edits, Editor))
<1>1. CatalogInit
  BY DEF ServicesInit
<1>2. PICK s \in Edits : Editing(s)
  BY DEF ServicesInit, Of
<1>3. \A e \in Editor : s[e] \in AskedIn(Edits, Editor)
  BY DEF AskedIn
<1> DEFINE A == AskedIn(Edits, Editor)
<1>4. edit \in [Editor -> [ask : A, at : {"idle"}, occurred_at : {0}]]
  <2> HIDE DEF A
  <2> QED BY <1>2, <1>3 DEF Editing, A
<1> QED BY <1>1, <1>4 DEF CatalogStart

LEMMA GrantsStarts ==
  ASSUME ServicesInit, part = "grants" PROVE GrantsStart(AskedIn(Grantings, Admin))
<1>1. GrantsInit
  BY DEF ServicesInit
<1>2. PICK s \in Grantings : Granting(s)
  BY DEF ServicesInit
<1>3. \A m \in Admin : s[m] \in AskedIn(Grantings, Admin)
  BY DEF AskedIn
<1>4. granting \in [Admin -> [ask : AskedIn(Grantings, Admin), at : {"idle"}, held : {0}, version : {0}]]
  BY <1>2, <1>3 DEF Granting
<1> QED BY <1>1, <1>4 DEF GrantsStart

LEMMA ReleasesStarts ==
  ASSUME ServicesInit, part = "releases" PROVE ReleasesStart(AskedIn(Curatings, Curation))
<1>1. ReleasesInit
  BY DEF ServicesInit
<1>2. PICK s \in Curatings : Curate(s)
  BY DEF ServicesInit
<1>3. \A q \in Curation : s[q] \in AskedIn(Curatings, Curation)
  BY DEF AskedIn
<1>4. curating \in [Curation -> [ask : AskedIn(Curatings, Curation), at : {"idle"}, row : {NoRelease}]]
  BY <1>2, <1>3 DEF Curate
<1> QED BY <1>1, <1>4 DEF ReleasesStart

LEMMA WorkspacesStarts ==
  ASSUME ServicesInit, part = "workspaces" PROVE WorkspacesStart(AskedIn(Furnishings, Upsert))
<1>1. WorkspacesInit
  BY DEF ServicesInit
<1>2. PICK s \in Furnishings : Furnish(s)
  BY DEF ServicesInit
<1>3. \A u \in Upsert : s[u] \in AskedIn(Furnishings, Upsert)
  BY DEF AskedIn
<1>4. upserting \in [Upsert -> [ask : AskedIn(Furnishings, Upsert), at : {"idle"}, seen : {0}]]
  BY <1>2, <1>3 DEF Furnish
<1> QED BY <1>1, <1>4 DEF WorkspacesStart

LEMMA CallsStarts ==
  ASSUME ServicesInit, part = "outbound" PROVE CallsStart
<1>1. OutboundInit
  BY DEF ServicesInit
<1>2. PICK s \in Callings : Calling(s)
  BY DEF ServicesInit, Of
<1>3. \A c \in Outgoing : s[c] \in CallTargets
  BY ScenarioAssumption DEF OutsideAsks
<1>4. outbound \in [Outgoing -> [want : CallTargets, at : {"idle"}, to : {"none"},
                                 told : {"nothing"}, counted : {{}}, busy : {FALSE}]]
  BY <1>2, <1>3 DEF Calling
<1> QED BY <1>1, <1>4 DEF CallsStart

LEMMA ControllerStarts ==
  ASSUME ServicesInit, part = "controller" PROVE ControllerStart
<1>1. ControllerInit
  BY DEF ServicesInit
<1>2. PICK s \in Orders : Ordered(s)
  BY DEF ServicesInit
<1>3. \A r \in Directive : s[r] \in OrderAsk
  BY ScenarioAssumption DEF OutsideAsks
<1>4. order \in [Directive -> [ask : OrderAsk, at : {"idle"}, version : {0}, landed : {FALSE}]]
  BY <1>2, <1>3 DEF Ordered
<1> QED BY <1>1, <1>4 DEF ControllerStart
----------------------------------------------------------------------------
\* What leaves the platform keeps its promises, whatever the scenarios: calls are told as they
\* went, and the range's controller keeps its protocol.
OutsideInv ==
  (part = "outbound" => CallsInv) /\ (part = "controller" => ControllerInv)

THEOREM OutsideStaysSound ==
  ServicesSpec => []OutsideIsSound
<1>1. ServicesInit => OutsideInv
  BY CallsStarts, ControllerStarts, CallsBegin, ControllerBegins DEF OutsideInv
<1>2. OutsideInv /\ [ServicesNext]_servicesVars => OutsideInv'
  BY PartsStay, PartsMove, CallsStep, ControllerStep DEF OutsideInv
<1>3. OutsideInv => OutsideIsSound
  BY CallsAreTrue, ControllerKeepsWord DEF OutsideInv, OutsideIsSound
<1> QED BY <1>1, <1>2, <1>3, PTL DEF ServicesSpec

\* What administrators do.
AdministrationInv ==
  /\ part = "runbooks" => CatalogInv(AskedIn(Edits, Editor))
  /\ part = "grants" => GrantInv(AskedIn(Grantings, Admin))
  /\ part = "releases" => ReleasesInv(AskedIn(Curatings, Curation))
  /\ part = "workspaces" => WorkspacesInv(AskedIn(Furnishings, Upsert))

LEMMA AdministrationBegins ==
  ASSUME ServicesInit PROVE AdministrationInv
<1>1. part = "runbooks" => CatalogInv(AskedIn(Edits, Editor))
  BY CatalogStarts, CatalogBegins, ScenarioAssumption DEF AdministrationAsks
<1>2. part = "grants" => GrantInv(AskedIn(Grantings, Admin))
  BY GrantsStarts, GrantsBegin, ScenarioAssumption DEF AdministrationAsks
<1>3. part = "releases" => ReleasesInv(AskedIn(Curatings, Curation))
  BY ReleasesStarts, ReleasesBegin, ScenarioAssumption DEF AdministrationAsks
<1>4. part = "workspaces" => WorkspacesInv(AskedIn(Furnishings, Upsert))
  BY WorkspacesStarts, WorkspacesBegin, ScenarioAssumption DEF AdministrationAsks
<1> QED BY <1>1, <1>2, <1>3, <1>4 DEF AdministrationInv

LEMMA AdministrationStep ==
  ASSUME AdministrationInv, [ServicesNext]_servicesVars
  PROVE  AdministrationInv'
<1>0. part' = part
  BY PartsStay
<1>1. part = "runbooks" => CatalogInv(AskedIn(Edits, Editor))'
  BY PartsMove, CatalogSteps, ScenarioAssumption DEF AdministrationInv, AdministrationAsks
<1>2. part = "grants" => GrantInv(AskedIn(Grantings, Admin))'
  BY PartsMove, GrantSteps, ScenarioAssumption DEF AdministrationInv, AdministrationAsks
<1>3. part = "releases" => ReleasesInv(AskedIn(Curatings, Curation))'
  BY PartsMove, ReleasesStep, ScenarioAssumption DEF AdministrationInv, AdministrationAsks
<1>4. part = "workspaces" => WorkspacesInv(AskedIn(Furnishings, Upsert))'
  BY PartsMove, WorkspacesStep, ScenarioAssumption DEF AdministrationInv, AdministrationAsks
<1> QED BY <1>0, <1>1, <1>2, <1>3, <1>4 DEF AdministrationInv

\* What administrators published is not changed by others either.
LEMMA PublishedKept ==
  ASSUME AdministrationInv, [ServicesNext]_servicesVars
  PROVE  /\ [/\ \A v \in BookVersion :
                  books[v].status \in {"PUBLISHED", "ARCHIVED"} =>
                    /\ books'[v].content = books[v].content
                    /\ books'[v].status \in {books[v].status, "ARCHIVED"}
             /\ Having("PUBLISHED") # {} => Cardinality(Having("PUBLISHED")') = 1]_catalogVars
         /\ [\A d \in DatasetRelease :
               releases[d].status = "PUBLISHED" =>
                 releases'[d] = releases[d] /\ ReviewsOf(d)' = ReviewsOf(d)]_releaseVars
<1>1. CASE part = "runbooks"
  <2>1. CatalogInv(AskedIn(Edits, Editor)) /\ EditAsks(AskedIn(Edits, Editor)) /\ [CatalogNext]_catalogVars
    BY <1>1, PartsMove, ScenarioAssumption DEF AdministrationInv, AdministrationAsks
  <2>2. UNCHANGED releaseVars
    BY <1>1, OthersStay
  <2> QED BY <2>1, <2>2, ShownVersionsStay
<1>2. CASE part = "releases"
  <2>1. /\ ReleasesInv(AskedIn(Curatings, Curation)) /\ CurationAsks(AskedIn(Curatings, Curation))
        /\ [ReleasesNext]_releaseVars
    BY <1>2, PartsMove, ScenarioAssumption DEF AdministrationInv, AdministrationAsks
  <2>2. UNCHANGED catalogVars
    BY <1>2, OthersStay
  <2> QED BY <2>1, <2>2, PublishedReleasesStay
<1>3. CASE part \notin {"runbooks", "releases"}
  BY <1>3, OthersStay
<1> QED BY <1>1, <1>2, <1>3

\* Runbooks, grants, releases and workspaces keep what was promised of them, and what is
\* published stays, whatever administrators ask for and in whatever order.
THEOREM AdministrationStaysSound ==
  ServicesSpec => AdministrationIsSound
<1> DEFINE Sound == CASE part = "runbooks" -> RunbooksAreSound
                      [] part = "grants" -> GrantsAreSound
                      [] part = "releases" -> ReleaseIsSound
                      [] part = "workspaces" -> WorkspacesAreSound
                      [] OTHER -> TRUE
           BooksKept ==
             /\ \A v \in BookVersion :
                  books[v].status \in {"PUBLISHED", "ARCHIVED"} =>
                    /\ books'[v].content = books[v].content
                    /\ books'[v].status \in {books[v].status, "ARCHIVED"}
             /\ Having("PUBLISHED") # {} => Cardinality(Having("PUBLISHED")') = 1
           ReleasesKept ==
             \A d \in DatasetRelease :
               releases[d].status = "PUBLISHED" =>
                 releases'[d] = releases[d] /\ ReviewsOf(d)' = ReviewsOf(d)
<1>1. ServicesInit => AdministrationInv
  BY AdministrationBegins
<1>2. AdministrationInv /\ [ServicesNext]_servicesVars => AdministrationInv'
  BY AdministrationStep
<1>3. AdministrationInv => Sound
  BY CatalogIsSound, GrantsAreAsPromised, ReleasesInvSuffices, ScenarioAssumption
     DEF AdministrationInv, AdministrationAsks, WorkspacesInv, WorkspacesAreSound
<1>4. AdministrationInv /\ [ServicesNext]_servicesVars =>
        [BooksKept]_catalogVars /\ [ReleasesKept]_releaseVars
  BY PublishedKept
<1>5. AdministrationIsSound <=> []Sound /\ [][BooksKept]_catalogVars /\ [][ReleasesKept]_releaseVars
  BY DEF AdministrationIsSound, PublishedIsKept, PublishedStays
<1> HIDE DEF Sound, BooksKept, ReleasesKept
<1> QED BY <1>1, <1>2, <1>3, <1>4, <1>5, PTL DEF ServicesSpec
----------------------------------------------------------------------------
(* A process: its parts start as they start alone.                            *)

LEMMA LoginsStart ==
  ASSUME ServicesInit, part = "logins" PROVE SigningStart(AskedIn(Bearings, Login))
<1>1. SigningInit
  BY DEF ServicesInit
<1>2. PICK s \in Bearings : Bearing(s)
  BY DEF ServicesInit, Of
<1>3. \A l \in Login : s[l] \in AskedIn(Bearings, Login)
  BY DEF AskedIn
<1> DEFINE A == AskedIn(Bearings, Login)
           tokens == [l \in Login |-> s[l]]
<1>4. tokens \in [Login -> A] /\ Bearing(tokens)
  <2> HIDE DEF A
  <2> QED BY <1>2, <1>3 DEF Bearing, A
<1> QED BY <1>1, <1>4 DEF SigningStart

LEMMA VisitsStart ==
  ASSUME ServicesInit, part = "edge" PROVE EdgeStart(AskedIn(Visitings, Visit))
<1>1. EdgeInit
  BY DEF ServicesInit
<1>2. PICK s \in Visitings : Visiting(s)
  BY DEF ServicesInit, Of
<1>3. \A v \in Visit : s[v] \in AskedIn(Visitings, Visit)
  BY DEF AskedIn
<1> DEFINE A == AskedIn(Visitings, Visit)
           ways == [v \in Visit |-> s[v]]
<1>4. ways \in [Visit -> A] /\ Visiting(ways)
  <2> HIDE DEF A
  <2> QED BY <1>2, <1>3 DEF Visiting, A
<1> QED BY <1>1, <1>4 DEF EdgeStart

LEMMA OthersOfAProcessStart ==
  ASSUME ServicesInit
  PROVE  /\ part = "configuration" => given \in Setting /\ ConfigurationInit
         /\ LifecycleInit /\ ReadinessInit
         /\ part = "loops" => LoopsStart
         /\ part = "monitoring" => MonitoringStart(FirstHealth)
<1>1. part = "configuration" => given \in Setting
  BY ScenarioAssumption DEF ServicesInit, Else, ProcessAsks
<1>2. part = "loops" => worker \in Workers5
  BY DEF ServicesInit, Of
<1>3. part = "monitoring" => workerHealth \in FirstHealth
  BY DEF ServicesInit, Of
<1> QED BY <1>1, <1>2, <1>3 DEF ServicesInit, LoopsStart, MonitoringStart

\* What each part of a process keeps.
ProcessInv ==
  /\ part = "configuration" => ConfigurationInv
  /\ part = "lifecycle" => LifecycleInv
  /\ part = "readiness" => ReadinessInv
  /\ part = "logins" => SigningInv(AskedIn(Bearings, Login))
  /\ part = "edge" => EdgeInv
  /\ part = "loops" => LoopsInv
  /\ part = "monitoring" => MonitoringInv

LEMMA ProcessBegins ==
  ASSUME ServicesInit PROVE ProcessInv
<1>1. part = "configuration" => ConfigurationInv
  BY OthersOfAProcessStart, ConfigurationBegins
<1>2. part = "lifecycle" => LifecycleInv
  BY OthersOfAProcessStart, LifecycleBegins
<1>3. part = "readiness" => ReadinessInv
  BY OthersOfAProcessStart, ReadinessBegins
<1>4. part = "logins" => SigningInv(AskedIn(Bearings, Login))
  BY LoginsStart, SigningBegins, ScenarioAssumption DEF ProcessAsks
<1>5. part = "edge" => EdgeInv
  BY VisitsStart, EdgeBegins, ScenarioAssumption DEF ProcessAsks
<1>6. part = "loops" => LoopsInv
  BY OthersOfAProcessStart, LoopBegins
<1>7. part = "monitoring" => MonitoringInv
  BY OthersOfAProcessStart, MonitoringBegins, ScenarioAssumption DEF ProcessAsks
<1> QED BY <1>1, <1>2, <1>3, <1>4, <1>5, <1>6, <1>7 DEF ProcessInv

LEMMA ProcessStep ==
  ASSUME ProcessInv, [ServicesNext]_servicesVars PROVE ProcessInv'
<1>0. part' = part
  BY PartsStay
<1>1. part = "configuration" => ConfigurationInv'
  BY PartsMove, ConfigurationSteps DEF ProcessInv
<1>2. part = "lifecycle" => LifecycleInv'
  BY PartsMove, LifecycleSteps DEF ProcessInv
<1>3. part = "readiness" => ReadinessInv'
  BY PartsMove, ReadinessSteps DEF ProcessInv
<1>4. part = "logins" => SigningInv(AskedIn(Bearings, Login))'
  BY PartsMove, SigningSteps, ScenarioAssumption DEF ProcessInv, ProcessAsks
<1>5. part = "edge" => EdgeInv'
  BY PartsMove, EdgeSteps DEF ProcessInv
<1>6. part = "loops" => LoopsInv'
  BY PartsMove, LoopSteps DEF ProcessInv
<1>7. part = "monitoring" => MonitoringInv'
  BY PartsMove, MonitoringSteps DEF ProcessInv
<1> QED BY <1>0, <1>1, <1>2, <1>3, <1>4, <1>5, <1>6, <1>7 DEF ProcessInv

\* What a step of a process may not do, when others move too.
LEMMA ProcessKeepsOrder ==
  ASSUME ProcessInv, [ServicesNext]_servicesVars
  PROVE  /\ [\A p \in Prober :
               probe'[p] = "sent" /\ probe[p] # "sent" =>
                 /\ ~CacheIsFresh
                 /\ \A q \in Prober : probe[q] \notin {"sent", "answered"}]_readinessVars
         /\ [\A p \in Prober : probe'[p] = "ready" /\ probe[p] # "ready" => runtime # "closed"]_readinessVars
         /\ [stopAsked /\ loop # "cycle" => loop' # "cycle"]_loopVars
         /\ [ShowsNoLess]_monitoringVars
<1>1. part = "readiness" => ReadinessInv /\ [ReadinessNext]_readinessVars
  BY PartsMove DEF ProcessInv
<1>2. part = "loops" => LoopsNext \/ UNCHANGED loopVars
  BY PartsMove
<1>3. part = "monitoring" => MonitoringInv /\ [MonitoringNext]_monitoringVars
  BY PartsMove DEF ProcessInv
<1>4. [\A p \in Prober :
         probe'[p] = "sent" /\ probe[p] # "sent" =>
           /\ ~CacheIsFresh
           /\ \A q \in Prober : probe[q] \notin {"sent", "answered"}]_readinessVars
      /\ [\A p \in Prober : probe'[p] = "ready" /\ probe[p] # "ready" => runtime # "closed"]_readinessVars
  <2>1. CASE part = "readiness"
    BY <1>1, <2>1, ProbesAreSpaced
  <2>2. CASE part # "readiness"
    BY <2>2, OthersStay
  <2> QED BY <2>1, <2>2
<1>5. [stopAsked /\ loop # "cycle" => loop' # "cycle"]_loopVars
  <2>1. CASE part = "loops"
    BY <1>2, <2>1, NoCycleBegins
  <2>2. CASE part # "loops"
    BY <2>2, OthersStay
  <2> QED BY <2>1, <2>2
<1>6. [ShowsNoLess]_monitoringVars
  <2>1. CASE part = "monitoring"
    BY <1>3, <2>1, MonitoringSteps
  <2>2. CASE part # "monitoring"
    BY <2>2, OthersStay
  <2> QED BY <2>1, <2>2
<1> QED BY <1>4, <1>5, <1>6

LEMMA PartsKeepWord ==
  ASSUME ProcessInv
  PROVE  CASE part = "configuration" -> RunningIsSafe
           [] part = "lifecycle" -> ShutdownIsOrderly
           [] part = "logins" -> LoginsAreSound
           [] part = "edge" -> EdgeIsSound
           [] part = "loops" -> LoopsAreSound
           [] part = "monitoring" -> MonitoringIsSound
           [] part = "readiness" -> ReadyMeansSeen
           [] OTHER -> TRUE
<1>1. part = "configuration" => RunningIsSafe
  BY ConfigurationRunsSafely DEF ProcessInv
<1>2. part = "lifecycle" => ShutdownIsOrderly
  BY LifecycleIsOrderly DEF ProcessInv
<1>3. part = "logins" => LoginsAreSound
  BY LoginsKeepWord, ScenarioAssumption DEF ProcessInv, ProcessAsks
<1>4. part = "edge" => EdgeIsSound
  BY EdgeKeepsWord DEF ProcessInv
<1>5. part = "loops" => LoopsAreSound
  BY LoopsKeepWord DEF ProcessInv
<1>6. part = "monitoring" => MonitoringIsSound
  BY MonitoringKeepsWord DEF ProcessInv
<1>7. part = "readiness" => ReadyMeansSeen
  BY ReadinessIsTrue DEF ProcessInv
<1> QED BY <1>1, <1>2, <1>3, <1>4, <1>5, <1>6, <1>7

\* A process keeps its word, whatever its settings, requests, tokens and workers: what its
\* protocols assume of its settings holds, shutdown keeps its order, readiness is of lately,
\* logins, quotas, loops and scrapes are sound.
THEOREM ProcessStaysSound ==
  ServicesSpec => ProcessIsSound
<1> DEFINE Sound == CASE part = "configuration" -> RunningIsSafe
                      [] part = "lifecycle" -> ShutdownIsOrderly
                      [] part = "logins" -> LoginsAreSound
                      [] part = "edge" -> EdgeIsSound
                      [] part = "loops" -> LoopsAreSound
                      [] part = "monitoring" -> MonitoringIsSound
                      [] part = "readiness" -> ReadyMeansSeen
                      [] OTHER -> TRUE
           Spaced == \A p \in Prober :
                       probe'[p] = "sent" /\ probe[p] # "sent" =>
                         /\ ~CacheIsFresh
                         /\ \A q \in Prober : probe[q] \notin {"sent", "answered"}
           Silent == \A p \in Prober : probe'[p] = "ready" /\ probe[p] # "ready" => runtime # "closed"
           Stops == stopAsked /\ loop # "cycle" => loop' # "cycle"
<1>1. ServicesInit => ProcessInv
  BY ProcessBegins
<1>2. ProcessInv /\ [ServicesNext]_servicesVars => ProcessInv'
  BY ProcessStep
<1>3. ProcessInv => Sound
  BY PartsKeepWord
<1>4. ProcessInv /\ [ServicesNext]_servicesVars =>
        /\ [Spaced]_readinessVars /\ [Silent]_readinessVars /\ [Stops]_loopVars
        /\ [ShowsNoLess]_monitoringVars
  BY ProcessKeepsOrder
<1>5. ProcessIsSound <=> /\ []Sound /\ [][Spaced]_readinessVars /\ [][Silent]_readinessVars
                         /\ [][Stops]_loopVars /\ [][ShowsNoLess]_monitoringVars
  BY DEF ProcessIsSound, ReadinessIsSpaced, QueriesAreSpaced, ClosedIsNotReady, NoCycleAfterStop,
         NeverBackwards, ShowsNoLess
<1> HIDE DEF Sound, Spaced, Silent, Stops, ShowsNoLess
<1> QED BY <1>1, <1>2, <1>3, <1>4, <1>5, PTL DEF ServicesSpec
----------------------------------------------------------------------------
(* The agent: its parts start as they start alone.                            *)

LEMMA InvocationsStart ==
  ASSUME ServicesInit, part = "toolcalls"
  PROVE  ToolCallsStart(AskedIn(Tryings, Invocation))
<1>1. CallsInit
  BY DEF ServicesInit
<1>2. PICK s \in Tryings : Trying(s)
  BY DEF ServicesInit
<1>3. \A i \in Invocation : s[i] \in AskedIn(Tryings, Invocation)
  BY DEF AskedIn
<1>4. invoking \in [Invocation -> [ask : AskedIn(Tryings, Invocation), at : {"idle"}, cause : {"none"}]]
  BY <1>2, <1>3 DEF Trying
<1> QED BY <1>1, <1>4 DEF ToolCallsStart

LEMMA OthersOfTheAgentStart ==
  ASSUME ServicesInit
  PROVE  /\ part = "reasoning" => CausesStart(Evidences, Graphs)
         /\ part = "investigation" => InvestigationStart(Inquests)
         /\ part = "report" => GenerationStart(Rankings)
<1>1. part = "reasoning" => facts \in Evidences /\ graph \in Graphs
  BY DEF ServicesInit, Of
<1>2. part = "investigation" => \E s \in Inquests : Inquiring(s)
  BY DEF ServicesInit, Of
<1>3. part = "report" => candidates \in Rankings
  BY DEF ServicesInit, Of
<1>4. CausesInit /\ InvestigationInit /\ GenerationInit
  BY DEF ServicesInit
<1> QED BY <1>1, <1>2, <1>3, <1>4 DEF CausesStart, InvestigationStart, Inquiring, GenerationStart

\* What each part of the agent keeps.
AgentInv ==
  /\ part = "toolcalls" => ToolCallsInv(AskedIn(Tryings, Invocation))
  /\ part = "reasoning" => CausesInv(Graphs)
  /\ part = "investigation" => InvestigationInv
  /\ part = "report" => GenerationInv /\ candidates \in Rankings

LEMMA AgentBegins ==
  ASSUME ServicesInit PROVE AgentInv
<1>1. part = "toolcalls" => ToolCallsInv(AskedIn(Tryings, Invocation))
  BY InvocationsStart, ToolCallsBegin
<1>2. part = "reasoning" => CausesInv(Graphs)
  BY OthersOfTheAgentStart, CausesBegin, ScenarioAssumption DEF AgentAsks
<1>3. part = "investigation" => InvestigationInv
  BY OthersOfTheAgentStart, InvestigationBegins, ScenarioAssumption DEF AgentAsks
<1>4. part = "report" => GenerationInv /\ candidates \in Rankings
  BY OthersOfTheAgentStart, GenerationBegins DEF GenerationStart
<1> QED BY <1>1, <1>2, <1>3, <1>4 DEF AgentInv

LEMMA AgentStep ==
  ASSUME AgentInv, [ServicesNext]_servicesVars
  PROVE  /\ AgentInv'
         /\ [checkpoint'.version >= checkpoint.version]_investigationVars
         /\ [KeepsTime]_generationVars
<1>0. part' = part
  BY PartsStay
<1>1. part = "toolcalls" => ToolCallsInv(AskedIn(Tryings, Invocation))'
  BY PartsMove, ToolCallsStep, ScenarioAssumption DEF AgentInv, AgentAsks
<1>2. part = "reasoning" => CausesInv(Graphs)'
  BY PartsMove, CausesGoOn, ScenarioAssumption DEF AgentInv, AgentAsks
<1>3. part = "investigation" => InvestigationInv' /\ checkpoint'.version >= checkpoint.version
  BY PartsMove, InvestigationStep DEF AgentInv
<1>4. part = "report" => (GenerationInv /\ candidates \in Rankings)' /\ KeepsTime
  <2>1. SUFFICES ASSUME part = "report"
                 PROVE  (GenerationInv /\ candidates \in Rankings)' /\ KeepsTime
    OBVIOUS
  <2>2. PICK S : Rankings \subseteq Seq(S)
    BY OrdersAreSequences, ScenarioAssumption DEF AgentAsks, RankingAsks
  <2>3. GenerationInv /\ candidates \in Seq(S) /\ [GenerationNext]_generationVars
        /\ candidates \in Rankings
    BY <2>1, <2>2, PartsMove DEF AgentInv
  <2> QED BY <2>3, GenerationGoesOn
<1>5. [checkpoint'.version >= checkpoint.version]_investigationVars
  BY <1>3, OthersStay
<1>6. [KeepsTime]_generationVars
  BY <1>4, OthersStay
<1> QED BY <1>0, <1>1, <1>2, <1>3, <1>4, <1>5, <1>6 DEF AgentInv

LEMMA AgentKeepsWord ==
  ASSUME AgentInv
  PROVE  CASE part = "toolcalls" -> ToolCallsAreSound
           [] part = "reasoning" -> CausesAreSound
           [] part = "investigation" -> InvestigationsAreSound
           [] part = "report" -> ReportingIsSound
           [] OTHER -> TRUE
<1>1. part = "toolcalls" => ToolCallsAreSound
  BY ToolCallsAreHonest, ScenarioAssumption DEF AgentInv, AgentAsks
<1>2. part = "reasoning" => CausesAreSound
  BY CausesHold DEF AgentInv
<1>3. part = "investigation" => InvestigationsAreSound
  BY InvestigationIsSound DEF AgentInv
<1>4. part = "report" => ReportingIsSound
  BY GenerationIsSound DEF AgentInv
<1> QED BY <1>1, <1>2, <1>3, <1>4

\* The agent, whatever it is asked, whatever its tools and models answer, and in whatever
\* order: calls of tools end with honest results, a cause is one of the candidates evidence
\* made probable, evidence and budgets are accounted for, a checkpoint is not overwritten by
\* an older one, and reports say no more than a candidate supports.
THEOREM AgentStaysSound ==
  ServicesSpec => AgentIsSound
<1> DEFINE Sound == CASE part = "toolcalls" -> ToolCallsAreSound
                      [] part = "reasoning" -> CausesAreSound
                      [] part = "investigation" -> InvestigationsAreSound
                      [] part = "report" -> ReportingIsSound
                      [] OTHER -> TRUE
           Newer == checkpoint'.version >= checkpoint.version
<1>1. ServicesInit => AgentInv
  BY AgentBegins
<1>2. AgentInv /\ [ServicesNext]_servicesVars =>
        AgentInv' /\ [Newer]_investigationVars /\ [KeepsTime]_generationVars
  BY AgentStep
<1>3. AgentInv => Sound
  BY AgentKeepsWord
<1>4. AgentIsSound <=> /\ []Sound /\ [][Newer]_investigationVars
                       /\ [][KeepsTime]_generationVars
  BY DEF AgentIsSound, CheckpointsAdvance, OpenKeepsItsTime, KeepsTime
<1> HIDE DEF Sound, Newer
<1> QED BY <1>1, <1>2, <1>3, <1>4, PTL DEF ServicesSpec
=============================================================================
