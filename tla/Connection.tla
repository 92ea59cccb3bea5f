----------------------------- MODULE Connection -----------------------------
(***************************************************************************)
(* How one account gets and keeps its connection: AccountState             *)
(* (gui/accountstate.cpp) with its ConnectionValidator and                 *)
(* FetchServerSettingsJob, HttpCredentials with the token refresh of       *)
(* AccountBasedOAuth (libsync/creds), the login dialog of                  *)
(* HttpCredentialsGui, and the JobQueue that AccountState and Account      *)
(* block with a guard each.                                                *)
(*                                                                         *)
(* One step is one turn of the main event loop: the handler of a reply, a  *)
(* timer, a posted call, a change of the network or a click, with every    *)
(* slot it calls directly.  A handler is an operator that takes the world  *)
(* and returns it changed; the actions apply them.  QTimer::singleShot(0)  *)
(* posts a call, and posted calls run in their order.                      *)
(*                                                                         *)
(* An account loaded at start is modelled, not one that the wizard is      *)
(* setting up; the setting that pauses syncing on metered networks is on.  *)
(***************************************************************************)
EXTENDS JobQueue, Sequences

CONSTANTS
    Settings,               \* the capabilities job of FetchServerSettingsJob
    AccountGuard,           \* Account::_queueGuard
    StateGuard,             \* AccountState::_queueGuard
    TokenRefreshMaxRetries,
    Scenarios,              \* sets of events that may befall the account together
    MaxPosted               \* bound on the posted calls

AllEvents == {"portal", "metered", "offline", "redirect", "refused", "hard",
              "keychain", "signout", "tls", "expired", "upgrade", "heal"}

ASSUME ConnectionAssumption ==
    /\ Settings \in Jobs
    /\ Guards = {AccountGuard, StateGuard}
    /\ AccountGuard # StateGuard
    /\ TokenRefreshMaxRetries \in Nat \ {0}
    /\ Scenarios \subseteq SUBSET AllEvents
    /\ MaxPosted \in Nat \ {0}

VARIABLES
    acc,      \* AccountState
    cred,     \* HttpCredentials, its OAuth job, the keychain and the dialog
    posted,   \* the calls posted to the event loop
    net       \* NetworkInformation, and what the rest of the world may do

vars == <<q, acc, cred, posted, net>>

----------------------------------------------------------------------------
States == {"SignedOut", "Disconnected", "Connected", "Connecting"}

(* validator: none, waiting for status.php, waiting for the user request.  *)
(* settings: _fetchServerSettingsJob, and whether its end is announced.    *)
(* tls: the certificate dialog, and the blockJobs its check will have.     *)
(* enqueued and forgotten are history: FolderMan has queued the folders    *)
(* since the account connected; the user has signed out and not in again.  *)
Accounts ==
    [state     : States,
     waiting   : BOOLEAN,                      \* _waitingForNewCredentials
     validator : {"none", "status", "user"},
     auth      : BOOLEAN,                      \* ValidateAuthAndUpdate
     blocking  : BOOLEAN,                      \* its check blocks the jobs
     settings  : {"none", "quiet", "announced"},
     caps      : BOOLEAN,                      \* hasCapabilities
     tls       : {"none", "plain", "blocking"},
     enqueued  : BOOLEAN,
     forgotten : BOOLEAN]

(* keychain: whether fetchFromKeychainHelper reads it.  refresh: the phase *)
(* of _oAuthJob; "lost" when it exists and nothing will ever come from it. *)
(* good is history: the last answer about the token was a new one.         *)
Credentials ==
    [ready    : BOOLEAN,
     token    : BOOLEAN,                       \* a refresh token in memory
     stored   : BOOLEAN,                       \* and one in the keychain
     fetched  : BOOLEAN,                       \* _wasFetched
     keychain : {"none", "reading"},
     refresh  : {"none", "restore", "asking", "lost"},
     tries    : 0 .. TokenRefreshMaxRetries - 1,
     timers   : SUBSET (0 .. TokenRefreshMaxRetries - 1),
     dialog   : BOOLEAN,                       \* the login dialog is open
     good     : BOOLEAN]

(* The calls that setState(Connected) posts, for a changed and for an      *)
(* unchanged state, and checkConnectivity(false).                          *)
Calls == {"connected", "confirmed", "check"}

(* events: the scenario of this behaviour, chosen at its start.  sound:    *)
(* nothing of it happens any more.                                         *)
Networks ==
    [metered : BOOLEAN,
     portal  : BOOLEAN,
     offline : BOOLEAN,
     sound   : BOOLEAN,
     events  : SUBSET AllEvents]

Room == Len(posted) < MaxPosted

World == [q |-> q, acc |-> acc, cred |-> cred, posted |-> posted, net |-> net]

Become(w) ==
    /\ q' = w.q
    /\ acc' = w.acc
    /\ cred' = w.cred
    /\ posted' = w.posted
    /\ net' = w.net

Post(w, call) == [w EXCEPT !.posted = Append(@, call)]

readyForSync(w) == w.acc.settings = "none" /\ w.acc.state = "Connected"

----------------------------------------------------------------------------
(* AccountState *)

(* FolderMan::slotIsConnectedChanged: enqueues the folders that can sync. *)
IsConnectedChanged(w) ==
    [w EXCEPT !.acc.enqueued = @ \/ (readyForSync(w) /\ w.acc.caps)]

SetState_IgnoresMetered(w, state) ==
    LET changed == state # w.acc.state
        v       == [w EXCEPT !.acc.state = state,
                             !.acc.enqueued = @ /\ state = "Connected"]
    IN  IF state = "Connected"
        THEN Post(v, IF changed THEN "connected" ELSE "confirmed")
        ELSE IF changed THEN IsConnectedChanged(v) ELSE v

(* setState, but for the way from SignedOut to Disconnected (see SignIn). *)
SetState(w, state) ==
    LET changed == state # w.acc.state
        held    == state = "Connected" /\ changed /\ (w.net.metered \/ w.net.portal)
        actual  == IF held THEN "Connecting" ELSE state
        v       == [w EXCEPT !.acc.state = actual,
                             !.acc.enqueued = @ /\ actual = "Connected"]
    IN  IF state = "Connected"
        THEN Post(v, IF changed THEN "connected" ELSE "confirmed")
        ELSE IF changed THEN IsConnectedChanged(v) ELSE v

DropValidator(w) ==
    [w EXCEPT !.acc.validator = "none", !.acc.auth = FALSE, !.acc.blocking = FALSE]

(* The first check of a loaded account reads its keychain: its credentials *)
(* are neither ready nor hold a token then (see FetchedOnce).              *)
FetchFromKeychain(w) ==
    [w EXCEPT !.acc.waiting = TRUE, !.cred.fetched = TRUE, !.cred.keychain = "reading"]

StartValidator(w, block) ==
    [w EXCEPT !.q = IF block THEN GuardBlock(@, StateGuard) ELSE @,
              !.acc.validator = "status",
              !.acc.auth = w.acc.state = "Connected" \/ ~w.acc.waiting,
              !.acc.blocking = block]

(* recent: the last ETag check succeeded within the poll interval. *)
CheckConnectivity(w, block, recent) ==
    LET v == IF w.acc.state = "Connected" THEN w ELSE SetState(w, "Connecting")
        replace == block /\ ~isBlocked(v.q)
        u == IF v.cred.fetched THEN DropValidator(v) ELSE FetchFromKeychain(DropValidator(v))
        skip == u.acc.caps /\ ~block /\ u.acc.state = "Connected" /\ recent
    IN  IF w.acc.state = "SignedOut" \/ w.acc.waiting THEN w
        ELSE IF v.acc.tls # "none" \/ (v.acc.validator # "none" /\ ~replace) THEN v
        ELSE IF skip THEN u
        ELSE StartValidator(u, block)

----------------------------------------------------------------------------
(* HttpCredentials *)

(* refreshAccessTokenInternal: authenticationStarted blocks the queue. *)
Refresh(w, tries) ==
    IF ~w.cred.token \/ w.cred.refresh # "none" THEN w
    ELSE [w EXCEPT !.cred.refresh = "restore",
                   !.cred.tries = tries,
                   !.q = GuardBlock(@, AccountGuard)]

(* checkCredentials and slotAuthentication, for a 401. *)
SlotAuthentication(w) == IF w.cred.ready THEN Refresh(w, 0) ELSE w

(* fetched(): AccountState checks, and then Account unblocks the queue. *)
Fetched(w, recent) ==
    LET v == CheckConnectivity([w EXCEPT !.acc.waiting = FALSE], FALSE, recent)
    IN  [v EXCEPT !.q = GuardUnblock(@, AccountGuard)]

ForgetSensitiveData(w) ==
    [w EXCEPT !.cred.token = FALSE, !.cred.ready = FALSE, !.cred.stored = FALSE]

(* invalidateToken keeps the keychain while there is a refresh token. *)
InvalidateToken(w) ==
    [w EXCEPT !.cred.ready = FALSE, !.cred.stored = @ /\ w.cred.token]

(* The refresh token is of no use any more: authenticationFailed clears    *)
(* the queue, and fetched makes AccountState find the account logged out.  *)
LogOut(w, recent) ==
    LET v == ForgetSensitiveData(w)
    IN  Fetched([v EXCEPT !.q = GuardClear(@, AccountGuard)], recent)

EndRefresh(w) == [w EXCEPT !.cred.refresh = "none", !.cred.tries = 0]

RefreshError_OnceMore(w, soft, recent) ==
    LET next == w.cred.tries + 1
        v    == [EndRefresh(w) EXCEPT !.cred.good = FALSE]
    IN  IF next > TokenRefreshMaxRetries THEN LogOut(v, recent)
        ELSE [v EXCEPT !.cred.timers = @ \union {next}]

(* refreshError: a network error starts the count anew. *)
RefreshError(w, soft, recent) ==
    LET again == soft \/ w.net.offline
        next  == IF again THEN 0 ELSE w.cred.tries + 1
        v     == [EndRefresh(w) EXCEPT !.cred.good = FALSE]
    IN  IF next >= TokenRefreshMaxRetries THEN LogOut(v, recent)
        ELSE [v EXCEPT !.cred.timers = @ \union {next}]

(* slotInvalidCredentials: refresh the token, or ask the user. *)
InvalidCredentials(w) ==
    LET v == [w EXCEPT !.acc.waiting = TRUE]
        u == IF v.cred.ready THEN InvalidateToken(v) ELSE v
    IN  IF w.acc.waiting THEN w
        ELSE IF u.cred.token THEN Refresh(u, 0)
        ELSE SetState([u EXCEPT !.cred.dialog = TRUE], "Connecting")

ConnectionResult_Late(w, status) ==
    LET v == DropValidator(w)
    IN  CASE status = "Connected" -> SetState(v, "Connected")
          [] status = "Unreachable" -> SetState(v, "Disconnected")
          [] status = "InvalidCredentials" -> InvalidCredentials(v)
          [] status = "SslError" -> v

(* slotConnectionValidatorResult; the validator deletes itself.  Undefined, *)
(* ServiceUnavailable, Timeout and StatusNotFound are all "Unreachable".    *)
ConnectionResult(w, status) ==
    LET v == DropValidator(w)
    IN  IF v.acc.state = "SignedOut" THEN v
        ELSE CASE status = "Connected" /\ v.acc.caps -> SetState(v, "Connected")
               [] status = "Connected" /\ ~v.acc.caps -> CheckConnectivity(v, FALSE, FALSE)
               [] status = "Unreachable" -> SetState(v, "Disconnected")
               [] status = "InvalidCredentials" -> InvalidCredentials(v)
               [] status = "SslError" -> IF v.net.portal THEN SetState(v, "Connecting") ELSE v

----------------------------------------------------------------------------
(* FetchServerSettingsJob and the other jobs *)

(* The end of the capabilities job, which keeps readyForSync FALSE. *)
SettingsFinished(w, ok) ==
    LET v == [w EXCEPT !.acc.settings = "none", !.acc.caps = @ \/ ok]
    IN  IF w.acc.settings = "announced" THEN IsConnectedChanged(v) ELSE v

(* finishedSignal. *)
JobDone(w, j, ok) ==
    LET v == [w EXCEPT !.q = Over(@, j)]
    IN  IF j = Settings THEN SettingsFinished(v, ok) ELSE v

(* The part of slotFinished that retries a job or lets it fail. *)
RetryOrFail(w, j) ==
    IF needsRetry(w.q, j) THEN [w EXCEPT !.q = Retried(@, j)] ELSE JobDone(w, j, FALSE)

ConnectedCall_QueueBlocked(w, changed, due) ==
    IF w.acc.settings = "none" /\ due
    THEN [w EXCEPT !.acc.settings = IF changed THEN "announced" ELSE "quiet",
                   !.q = Sent(@, Settings)]
    ELSE IF changed THEN IsConnectedChanged(w) ELSE w

(* What setState(Connected) has posted.  due: the settings are old. *)
ConnectedCall(w, changed, due) ==
    LET v == [w EXCEPT !.q = GuardUnblock(@, StateGuard)]
    IN  IF v.acc.settings = "none" /\ due
        THEN [v EXCEPT !.acc.settings = IF changed THEN "announced" ELSE "quiet",
                       !.q = Sent(@, Settings)]
        ELSE IF changed THEN IsConnectedChanged(v) ELSE v

----------------------------------------------------------------------------
(* What may happen, as long as the network is not sound for good. *)
May(e) == e \in net.events /\ ~net.sound

Fails == ~net.sound

Init ==
    \E events \in Scenarios :
    \E state \in {"Disconnected"} \union IF "signout" \in events THEN {"SignedOut"} ELSE {},
       stored \in BOOLEAN,
       portal \in {FALSE} \union IF "portal" \in events THEN {TRUE} ELSE {} :
      /\ state = "SignedOut" => ~stored
      /\ q = IF portal THEN GuardBlock(EmptyQueue, StateGuard) ELSE EmptyQueue
      /\ acc = [state |-> state, waiting |-> FALSE, validator |-> "none",
                auth |-> FALSE, blocking |-> FALSE, settings |-> "none",
                caps |-> "upgrade" \notin events, tls |-> "none",
                enqueued |-> FALSE, forgotten |-> state = "SignedOut"]
      /\ cred = [ready |-> FALSE, token |-> FALSE, stored |-> stored,
                 fetched |-> FALSE, keychain |-> "none", refresh |-> "none",
                 tries |-> 0, timers |-> {}, dialog |-> FALSE, good |-> FALSE]
      /\ posted = <<>>
      /\ net = [metered |-> FALSE, portal |-> portal, offline |-> FALSE,
                sound |-> FALSE, events |-> events]

(* The timer that checks every 62 seconds. *)
Poll == \E recent \in BOOLEAN : Become(CheckConnectivity(World, FALSE, recent))

RunPosted ==
    /\ posted # <<>>
    /\ LET w == [World EXCEPT !.posted = Tail(@)]
       IN  \/ /\ Head(posted) = "check"
              /\ \E recent \in BOOLEAN : Become(CheckConnectivity(w, FALSE, recent))
           \/ /\ Head(posted) \in {"connected", "confirmed"}
              /\ \E due \in BOOLEAN : Become(ConnectedCall(w, Head(posted) = "connected", due))

(* The reply to status.php, or the validator's timeout of 60 seconds. *)
StatusFound ==
    /\ acc.validator = "status"
    /\ Room
    /\ IF ~cred.ready THEN Become(ConnectionResult(World, "InvalidCredentials"))
       ELSE IF acc.auth THEN Become([World EXCEPT !.acc.validator = "user"])
       ELSE Become(ConnectionResult(World, "Connected"))

StatusFailed ==
    /\ Fails
    /\ acc.validator = "status"
    /\ \/ Become(ConnectionResult(World, "Unreachable"))
       \/ /\ May("tls")
          /\ Become(ConnectionResult(World, "SslError"))
       \/ /\ May("expired")
          /\ Become(ConnectionResult(SlotAuthentication(World), "Unreachable"))

(* The reply to the user request, an authentication job. *)
UserFound ==
    /\ acc.validator = "user"
    /\ Room
    /\ Become(ConnectionResult(World, "Connected"))

UserFailed ==
    /\ Fails
    /\ acc.validator = "user"
    /\ \/ Become(ConnectionResult(World, "Unreachable"))
       \/ /\ May("tls")
          /\ Become(ConnectionResult(World, "SslError"))
       \/ /\ May("expired")
          /\ Become(ConnectionResult(SlotAuthentication(World), "InvalidCredentials"))

(* sslErrors of the status.php request opens the dialog, once. *)
SslErrors ==
    /\ May("tls")
    /\ acc.validator = "status"
    /\ ~net.portal
    /\ acc.tls = "none"
    /\ Become([World EXCEPT !.acc.tls = IF acc.blocking THEN "blocking" ELSE "plain"])

TlsAccepted ==
    /\ acc.tls # "none"
    /\ LET w == DropValidator([World EXCEPT !.acc.tls = "none"])
       IN  Become(CheckConnectivity(w, acc.tls = "blocking", FALSE))

TlsRejected ==
    /\ acc.tls # "none"
    /\ Become(SetState([World EXCEPT !.acc.tls = "none"], "SignedOut"))

----------------------------------------------------------------------------
(* handleError of fetchFromKeychainHelper. *)
NothingFetched ==
    LET w == [World EXCEPT !.cred.keychain = "none", !.cred.ready = FALSE]
    IN  \E recent \in BOOLEAN : Become(Fetched(w, recent))

(* The keychain answers fetchFromKeychainHelper. *)
KeychainFound ==
    /\ cred.keychain = "reading"
    /\ cred.stored
    /\ Become(Refresh([World EXCEPT !.cred.keychain = "none", !.cred.token = TRUE], 0))

KeychainEmpty_Silent ==
    /\ cred.keychain = "reading"
    /\ ~cred.stored
    /\ Become([World EXCEPT !.cred.keychain = "none", !.cred.ready = FALSE])

KeychainEmpty ==
    /\ cred.keychain = "reading"
    /\ ~cred.stored
    /\ NothingFetched

(* The backend fails.  CredentialJob would read once more in 10 seconds,   *)
(* but it reports the failure at once and is deleted by that.              *)
KeychainFailed ==
    /\ May("keychain")
    /\ cred.keychain = "reading"
    /\ cred.stored
    /\ NothingFetched

(* restore() has read the keychain and status.php and .well-known were found. *)
RefreshRestored ==
    /\ cred.refresh = "restore"
    /\ Become([World EXCEPT !.cred.refresh = "asking"])

(* restore() could not read the id token: it reports result(Error), which *)
(* nobody has connected, and the OAuth job stays as it is.                *)
RefreshLost ==
    /\ May("keychain")
    /\ cred.refresh = "restore"
    /\ Become([World EXCEPT !.cred.refresh = "lost"])

RefreshGranted ==
    /\ cred.refresh = "asking"
    /\ LET w == [EndRefresh(World) EXCEPT !.cred.token = TRUE, !.cred.ready = TRUE,
                                          !.cred.stored = TRUE, !.cred.good = TRUE]
       IN  \E recent \in BOOLEAN : Become(Fetched(w, recent))

(* An answer without an access token: the refresh token is set again. *)
RefreshGarbled ==
    /\ Fails
    /\ cred.refresh = "asking"
    /\ \E recent \in BOOLEAN :
         Become(Fetched([EndRefresh(World) EXCEPT !.cred.token = TRUE], recent))

(* invalid_grant or invalid_request. *)
RefreshRefused ==
    /\ May("refused")
    /\ cred.refresh = "asking"
    /\ \E recent \in BOOLEAN :
         Become(LogOut(EndRefresh(World), recent))

RefreshFailed ==
    /\ Fails
    /\ cred.refresh = "asking"
    /\ \E soft \in {TRUE} \union IF May("hard") THEN {FALSE} ELSE {}, recent \in BOOLEAN :
         Become(RefreshError(World, soft, recent))

(* 30 seconds after a refreshError. *)
RetryTimer(n) ==
    /\ n \in cred.timers
    /\ Become(Refresh([World EXCEPT !.cred.timers = @ \ {n}], n))

----------------------------------------------------------------------------
(* A job of the application, such as a Drives job or one of a sync. *)
SendJob(j) ==
    /\ Fails
    /\ j # Settings
    /\ cred.ready
    /\ q.job[j] = "none"
    /\ Become([World EXCEPT !.q = Sent(@, j)])

JobAnswered(j) ==
    /\ q.job[j] = "sent"
    /\ \E ok \in {TRUE} \union IF Fails THEN {FALSE} ELSE {} : Become(JobDone(World, j, ok))

JobUnauthorized(j) ==
    /\ May("expired")
    /\ q.job[j] = "sent"
    /\ Become(RetryOrFail(SlotAuthentication(World), j))

(* An unsupported redirect: unknownConnectionState, and then the retry. *)
JobRedirected(j) ==
    /\ May("redirect")
    /\ q.job[j] = "sent"
    /\ Become(RetryOrFail(CheckConnectivity(World, TRUE, FALSE), j))

----------------------------------------------------------------------------
(* The user and the network *)

SignOutByUi ==
    /\ May("signout")
    /\ acc.state # "SignedOut"
    /\ Become(SetState(ForgetSensitiveData([World EXCEPT !.acc.forgotten = TRUE]), "SignedOut"))

(* signIn: setState(Disconnected) checks at once. *)
SignIn ==
    /\ acc.state = "SignedOut"
    /\ \E recent \in BOOLEAN :
         LET w == [World EXCEPT !.acc.state = "Disconnected", !.acc.waiting = FALSE,
                                !.acc.forgotten = FALSE]
         IN  Become(IsConnectedChanged(CheckConnectivity(w, FALSE, recent)))

(* asyncAuthResult: the user has logged in with the browser. *)
LoggedIn ==
    /\ cred.dialog
    /\ LET w == [World EXCEPT !.cred.dialog = FALSE, !.cred.token = TRUE,
                              !.cred.ready = TRUE, !.cred.stored = TRUE, !.cred.good = TRUE]
       IN  \E recent \in BOOLEAN : Become(Fetched(w, recent))

LogOutRequested ==
    /\ cred.dialog
    /\ Become(SetState([World EXCEPT !.cred.dialog = FALSE], "SignedOut"))

(* reachabilityChanged *)
Online ==
    /\ net.offline
    /\ Room
    /\ Become(Post(DropValidator([World EXCEPT !.net.offline = FALSE]), "check"))

Offline ==
    /\ May("offline")
    /\ ~net.offline
    /\ LET w == [World EXCEPT !.net.offline = TRUE]
       IN  Become(IF acc.state = "SignedOut" THEN w ELSE SetState(w, "Disconnected"))

(* isMeteredChanged, with pauseSyncWhenMetered *)
Metered ==
    /\ May("metered")
    /\ ~net.metered
    /\ LET w == [World EXCEPT !.net.metered = TRUE]
       IN  Become(IF acc.state = "Connected" THEN SetState(w, "Connecting") ELSE w)

Unmetered ==
    /\ net.metered
    /\ Room
    /\ LET w == [World EXCEPT !.net.metered = FALSE]
       IN  Become(IF acc.state = "Connecting" THEN SetState(w, "Connected") ELSE w)

(* isBehindCaptivePortalChanged *)
BehindPortal ==
    /\ May("portal")
    /\ ~net.portal
    /\ Room
    /\ LET w == [World EXCEPT !.net.portal = TRUE, !.q = GuardBlock(@, StateGuard)]
       IN  Become(Post(DropValidator(w), "check"))

PortalLeft ==
    /\ net.portal
    /\ Room
    /\ LET w == [World EXCEPT !.net.portal = FALSE,
                              !.q = GuardUnblock(Cleared(@), StateGuard)]
       IN  Become(Post(DropValidator(w), "check"))

(* From here on nothing fails, and nobody intervenes. *)
Heal ==
    /\ May("heal")
    /\ ~net.metered /\ ~net.portal /\ ~net.offline
    /\ Become([World EXCEPT !.net.sound = TRUE])

----------------------------------------------------------------------------
ValidatorAnswers == StatusFound \/ StatusFailed \/ UserFound \/ UserFailed

KeychainAnswers == KeychainFound \/ KeychainEmpty \/ KeychainFailed

RefreshAnswers ==
    \/ RefreshRestored \/ RefreshLost
    \/ RefreshGranted \/ RefreshGarbled \/ RefreshRefused \/ RefreshFailed

JobAnswers(j) == JobAnswered(j) \/ JobUnauthorized(j) \/ JobRedirected(j)

Next ==
    \/ Poll \/ RunPosted
    \/ ValidatorAnswers \/ SslErrors \/ TlsAccepted \/ TlsRejected
    \/ KeychainAnswers \/ RefreshAnswers
    \/ \E n \in 0 .. TokenRefreshMaxRetries - 1 : RetryTimer(n)
    \/ \E j \in Jobs : SendJob(j) \/ JobAnswers(j)
    \/ SignOutByUi \/ SignIn \/ LoggedIn \/ LogOutRequested
    \/ Online \/ Offline \/ Metered \/ Unmetered \/ BehindPortal \/ PortalLeft
    \/ Heal

Spec == Init /\ [][Next]_vars

(* The event loop runs what is posted and its timers; every request has a *)
(* timeout, so that it is answered; the user need not do anything.        *)
FairSpec ==
    /\ Spec
    /\ WF_vars(Poll) /\ WF_vars(RunPosted)
    /\ WF_vars(ValidatorAnswers)
    /\ WF_vars(KeychainAnswers)
    /\ WF_vars(RefreshAnswers)
    /\ \A n \in 0 .. TokenRefreshMaxRetries - 1 : WF_vars(RetryTimer(n))
    /\ \A j \in Jobs : WF_vars(JobAnswers(j))

----------------------------------------------------------------------------
(* Every part has its type. *)
TypeOK ==
    /\ q \in Queues
    /\ acc \in Accounts
    /\ cred \in Credentials
    /\ net \in Networks
    /\ posted \in Seq(Calls)

(* Whoever waits for new credentials gets an answer: as long as the account *)
(* takes no check, a refresh, its retry timer, the keychain or the login    *)
(* dialog will end that; and the block a refresh puts on the queue has      *)
(* somebody who lifts it, that refresh, its retry or, without a refresh     *)
(* token, the login that the next check asks for.  (A keychain that fails   *)
(* during a refresh breaks this, see RefreshEnds.)                          *)
RefreshAhead == cred.refresh \in {"restore", "asking"} \/ cred.timers # {}

WaitingEnds ==
    "keychain" \notin net.events =>
        /\ acc.waiting /\ acc.state # "SignedOut" =>
              RefreshAhead \/ cred.keychain = "reading" \/ cred.dialog
        /\ AccountGuard \in q.guards =>
              RefreshAhead \/ (~cred.token /\ ~cred.ready)

(* Nothing late revives an account that is signed out: no result of a      *)
(* validator, refresh or dialog, no posted call and no change of the       *)
(* network, only signIn (accountstate.h: "Not even attempting to connect").*)
SignedOutStays ==
    [][acc.state = "SignedOut" /\ acc'.state # "SignedOut" => SignIn]_vars

(* On a metered network no account is connected, however a validator, a    *)
(* posted call or a change of the network that was under way ends.         *)
MeteredPauses == net.metered => acc.state # "Connected"

(* Once nothing fails any more the account connects, the settings job that *)
(* keeps it from being ready for syncs ends, nobody waits for credentials  *)
(* and no job is left behind in the queue, unless it is up to the user.    *)
(* (Its folders need not be queued then, see ReconnectEnqueues.)           *)
Recovered ==
    /\ readyForSync(World)
    /\ WaitingJobs(q) = {}
    /\ ~acc.waiting

UpToTheUser == acc.state = "SignedOut" \/ cred.dialog \/ acc.tls # "none"

Recovers == net.sound ~> (Recovered \/ UpToTheUser)

----------------------------------------------------------------------------
(* What comments and tests of the code say, and the code does not do. *)

(* accountstate.cpp: "Block jobs from starting: they will fail because of *)
(* the captive portal."                                                   *)
PortalBlocksJobs == net.portal => isBlocked(q)

(* accountstate.cpp on going behind a captive portal: the call of         *)
(* checkConnectivity "ensures that not only the status is set to          *)
(* `Connecting`, but also makes the UI show that syncing is paused".      *)
PortalPauses ==
    net.portal /\ posted = <<>> /\ acc.validator = "none" => acc.state # "Connected"

(* accountstate.cpp: "clear the guard to make readyForSync return true":  *)
(* the settings job always has an end ahead that clears it.               *)
SettingsJobEnds == acc.settings # "none" => q.job[Settings] # "dropped"

(* oauth.h: refreshError is the "Terminal failure signal for              *)
(* refreshAuthentication": every refresh ends.                            *)
RefreshEnds == cred.refresh = "restore" ~> cred.refresh = "none"

(* accountstate.cpp: "now check again and fetch capabilities": an account *)
(* without cached capabilities gets them from a sound server.             *)
UpgradeFetchesCapabilities == net.sound ~> (acc.caps \/ UpToTheUser)

(* accountstate.h: signOutByUi "forgets the password": the keychain gets a *)
(* token again only when the user logs in again.                           *)
SignOutForgets ==
    [][acc.forgotten /\ acc'.forgotten /\ ~LoggedIn => (cred'.stored => cred.stored)]_vars

(* accountstate.cpp on the state Disconnected: "this way a successful     *)
(* checkConnectivity call above will trigger a local discover".           *)
ReconnectEnqueues ==
    readyForSync(World) /\ acc.caps /\ posted = <<>> => acc.enqueued

(* httpcredentials.cpp: the timeout after an error "can be applied        *)
(* `TokenRefreshMaxRetries` times": one failure logs nobody out.          *)
OneFailureIsRetried ==
    [][RefreshFailed /\ cred.good => cred'.token = cred.token]_vars

(* accountstate.h: Connected means "The account is successfully talking   *)
(* to the server": nobody is asked to log in meanwhile.                   *)
ConnectedTalks == acc.state = "Connected" => ~cred.dialog
=============================================================================
