---------------------------- MODULE Credentials ----------------------------
(***************************************************************************)
(* Native sign-in and credential refresh                                   *)
(* (crates/harness/src/transport/auth/chatgpt.rs, chatgpt_store.rs).       *)
(*                                                                         *)
(* A registration is one file beside its lock file.  Requests of any       *)
(* process look up an access token under the lock, and refresh an expired  *)
(* one there.  A sign-in reads the selected registration under the lock,   *)
(* waits for the operator's browser without it, exchanges the code, and    *)
(* replaces the file under the lock if it is still the one it read.  All   *)
(* sign-ins share one host identity, a file with a lock of its own.        *)
(*                                                                         *)
(* The authorization service is external.  Its refresh tokens are used     *)
(* once: every answer to a refresh carries the next one, which the code    *)
(* requires and saves.  A grant is a number that stands for its access     *)
(* token, its refresh token and the generation of the record that keeps    *)
(* it.  The browser, the callback's HTTP and the checks of the signature   *)
(* are reduced to their outcomes.                                          *)
(***************************************************************************)
EXTENDS Naturals

CONSTANTS Paths,     \* credential files
          Users,     \* requests that need an access token
          Logins,    \* sign-ins
          FileOf,    \* the credential file each of them uses
          Subjects,  \* accounts the operator may sign in with
          MaxGrants, \* grants issued by the service
          MaxFaults  \* failures and process losses

Host == "host"
Nobody == "nobody"
Everyone == Users \cup Logins

ASSUME CredentialAssumption == /\ FileOf \in [Everyone -> Paths]
                               /\ Users \cap Logins = {} /\ Nobody \notin Everyone
                               /\ Host \notin Paths
                               /\ {MaxGrants, MaxFaults} \subseteq Nat

VARIABLES
    file,       \* the registration in each file, or NoRecord
    hostFile,   \* the host identity, or 0
    locks,      \* who holds the lock of a file
    flow,       \* the progress of each request and sign-in
    grants,     \* grants issued so far
    live,       \* grants whose refresh token the service accepts
    tokenExpired,    \* grants whose access token has expired
    reused,     \* history: a refresh token was presented twice
    loginFaults \* failures so far

credentialVars == <<file, hostFile, locks, flow, grants, live, tokenExpired, reused, loginFaults>>

NoRecord == [grant |-> 0, subject |-> Nobody, client |-> 0, host |-> 0]
Resting == [pc |-> "idle", record |-> NoRecord, selected |-> NoRecord, host |-> 0]

CredentialInit ==
    /\ file = [p \in Paths |-> NoRecord]
    /\ hostFile = 0
    /\ locks = [p \in Paths \cup {Host} |-> Nobody]
    /\ flow = [t \in Everyone |-> Resting]
    /\ grants = 0
    /\ live = {}
    /\ tokenExpired = {}
    /\ reused = FALSE
    /\ loginFaults = 0

service == <<grants, live, tokenExpired, reused>>
Free(p) == locks[p] = Nobody
Released(t) == [p \in DOMAIN locks |-> IF locks[p] = t THEN Nobody ELSE locks[p]]
Fault == loginFaults < MaxFaults /\ loginFaults' = loginFaults + 1

\* The operation returns; its lock files are closed.
Leave(t) == /\ flow' = [flow EXCEPT ![t] = Resting]
            /\ locks' = Released(t)

-----------------------------------------------------------------------------
(* An access token for a request.                                          *)

LookUpUnlocked(u) ==
    LET record == file[FileOf[u]]
    IN /\ flow[u].pc = "idle"
       /\ Free(FileOf[u])
       /\ record # NoRecord
       /\ record.grant \in tokenExpired
       /\ flow' = [flow EXCEPT ![u] = [@ EXCEPT !.pc = "refresh", !.record = record]]
       /\ UNCHANGED <<file, hostFile, locks, service, loginFaults>>

\* Under the lock an expired registration is refreshed; without one, or with a
\* valid token, the lookup is over.
LookUp(u) ==
    LET record == file[FileOf[u]]
    IN /\ flow[u].pc = "idle"
       /\ Free(FileOf[u])
       /\ record # NoRecord
       /\ record.grant \in tokenExpired
       /\ locks' = [locks EXCEPT ![FileOf[u]] = u]
       /\ flow' = [flow EXCEPT ![u] = [@ EXCEPT !.pc = "refresh", !.record = record]]
       /\ UNCHANGED <<file, hostFile, service, loginFaults>>

\* The service answers a refresh: a live token is used up and the next grant
\* issued; the answer may be lost, and a token used before is rejected.
RefreshToken(u) ==
    LET old == flow[u].record.grant
    IN /\ flow[u].pc = "refresh"
       /\ \/ /\ old \in live
             /\ grants < MaxGrants
             /\ grants' = grants + 1
             /\ live' = (live \ {old}) \cup {grants + 1}
             /\ \/ /\ flow' = [flow EXCEPT ![u] = [@ EXCEPT !.pc = "apply",
                                                   !.record.grant = grants + 1]]
                   /\ UNCHANGED <<locks, loginFaults>>
                \/ Leave(u) /\ Fault
             /\ UNCHANGED reused
          \/ /\ old \notin live
             /\ reused' = (reused \/ loginFaults = 0)
             /\ Leave(u)
             /\ UNCHANGED <<grants, live, loginFaults>>
       /\ UNCHANGED <<file, hostFile, tokenExpired>>

\* The identity is verified, the tokens checked and the record replaced; each of
\* these may fail, the last one also after the file was renamed into place.
Apply(u) ==
    /\ flow[u].pc = "apply"
    /\ Leave(u)
    /\ \/ /\ file' = [file EXCEPT ![FileOf[u]] = flow[u].record]
          /\ UNCHANGED loginFaults \/ Fault
       \/ Fault /\ UNCHANGED file
    /\ UNCHANGED <<hostFile, service>>

-----------------------------------------------------------------------------
(* A sign-in.                                                              *)

\* The selected registration is read, and the lock kept for the host identity.
BeginLogin(l) ==
    /\ flow[l].pc = "idle"
    /\ Free(FileOf[l])
    /\ locks' = [locks EXCEPT ![FileOf[l]] = l]
    /\ flow' = [flow EXCEPT ![l] = [@ EXCEPT !.pc = "host", !.selected = file[FileOf[l]]]]
    /\ UNCHANGED <<file, hostFile, service, loginFaults>>

\* host_id: the identity is created once, under the lock of its own file.
ReadHost(l) ==
    /\ flow[l].pc = "host"
    /\ Free(Host)
    /\ IF hostFile = 0
       THEN /\ flow' = [flow EXCEPT ![l] = [@ EXCEPT !.pc = "newhost"]]
            /\ locks' = [locks EXCEPT ![Host] = l]
       ELSE /\ flow' = [flow EXCEPT ![l] = [@ EXCEPT !.pc = "browser", !.host = hostFile]]
            /\ locks' = Released(l)
    /\ UNCHANGED <<file, hostFile, service, loginFaults>>

\* Every identity is new: the number of sign-ins that made one tells them apart.
WriteHost(l) ==
    /\ flow[l].pc = "newhost"
    /\ \/ /\ hostFile' = hostFile + 1
          /\ flow' = [flow EXCEPT ![l] = [@ EXCEPT !.pc = "browser", !.host = hostFile + 1]]
          /\ locks' = Released(l)
          /\ UNCHANGED loginFaults
       \/ /\ Fault
          /\ Leave(l)
          /\ UNCHANGED hostFile
    /\ UNCHANGED <<file, service>>

\* The operator signs in as s and the code is exchanged.  The client keeps its
\* registration, a first sign-in gets a client of its own, and a subject other
\* than the selected one is refused.
Exchange(l) ==
    /\ flow[l].pc = "browser"
    /\ \/ /\ grants < MaxGrants
          /\ grants' = grants + 1
          /\ live' = live \cup {grants + 1}
          /\ \E s \in Subjects :
                LET selected == flow[l].selected
                IN IF selected # NoRecord /\ selected.subject # s
                   THEN Leave(l)
                   ELSE /\ flow' = [flow EXCEPT ![l] =
                            [@ EXCEPT !.pc = "save", !.record =
                                [grant |-> grants + 1, subject |-> s, host |-> flow[l].host,
                                 client |-> IF selected = NoRecord THEN grants + 1
                                            ELSE selected.client]]]
                        /\ UNCHANGED locks
          /\ UNCHANGED loginFaults
       \/ /\ Fault
          /\ Leave(l)
          /\ UNCHANGED <<grants, live>>
    /\ UNCHANGED <<file, hostFile, tokenExpired, reused>>

\* finish_login: under the lock the file must still hold the generation that
\* was selected, or none if none was.
FinishLogin(l) ==
    /\ flow[l].pc = "save"
    /\ Free(FileOf[l])
    /\ Leave(l)
    /\ IF file[FileOf[l]].grant = flow[l].selected.grant
       THEN \/ /\ file' = [file EXCEPT ![FileOf[l]] = flow[l].record]
               /\ UNCHANGED loginFaults \/ Fault
            \/ Fault /\ UNCHANGED file
       ELSE UNCHANGED <<file, loginFaults>>
    /\ UNCHANGED <<hostFile, service>>

-----------------------------------------------------------------------------
(* Time and processes.                                                     *)

\* A lock that stays taken is given up after thirty seconds.
LockTimesOut(t) ==
    /\ \/ flow[t].pc = "host" /\ ~Free(Host)
       \/ flow[t].pc = "save" /\ ~Free(FileOf[t])
    /\ Leave(t)
    /\ UNCHANGED <<file, hostFile, service, loginFaults>>

TokenExpires ==
    /\ \E p \in Paths : /\ file[p] # NoRecord
                        /\ file[p].grant \notin tokenExpired
                        /\ tokenExpired' = tokenExpired \cup {file[p].grant}
    /\ UNCHANGED <<file, hostFile, locks, flow, grants, live, reused, loginFaults>>

\* The process is lost, and the system closes its lock files.
ProcessLost(t) ==
    /\ flow[t].pc # "idle"
    /\ Fault
    /\ Leave(t)
    /\ UNCHANGED <<file, hostFile, service>>

CredentialNext ==
    \/ \E u \in Users : LookUp(u) \/ RefreshToken(u) \/ Apply(u)
    \/ \E l \in Logins : \/ BeginLogin(l) \/ ReadHost(l) \/ WriteHost(l)
                         \/ Exchange(l) \/ FinishLogin(l)
    \/ \E t \in Everyone : LockTimesOut(t) \/ ProcessLost(t)
    \/ TokenExpires

CredentialSpec == CredentialInit /\ [][CredentialNext]_credentialVars

-----------------------------------------------------------------------------
CredentialRecords == [grant : Nat, subject : Subjects \cup {Nobody}, client : Nat, host : Nat]
Stations == {"idle", "refresh", "apply", "host", "newhost", "browser", "save"}

\* Type correctness.
CredentialTypeOK ==
    /\ file \in [Paths -> CredentialRecords]
    /\ hostFile \in Nat
    /\ locks \in [Paths \cup {Host} -> Everyone \cup {Nobody}]
    /\ flow \in [Everyone -> [pc : Stations, record : CredentialRecords,
                             selected : CredentialRecords, host : Nat]]
    /\ grants \in Nat /\ loginFaults \in Nat /\ reused \in BOOLEAN

\* A refresh token is presented to the service once.  Only a failure between the
\* service's answer and the saved file can make the next lookup present it
\* again: requests of several processes never do (chatgpt.rs, credentials:
\* "Refreshes only the selected native registration under its process-shared lock").
RefreshOnce ==
    /\ ~reused
    /\ \A p \in Paths : file[p] # NoRecord /\ file[p].grant \notin live =>
          loginFaults > 0 \/ ~Free(p)

\* A file that holds a registration keeps its account, its client and its host
\* identity, whatever sign-ins and refreshes race for it.
RegistrationKept ==
    [][\A p \in Paths : file[p] # NoRecord =>
          /\ file'[p].subject = file[p].subject
          /\ file'[p].client = file[p].client
          /\ file'[p].host = file[p].host]_credentialVars

\* All registrations of one installation carry one host identity (host_id).
OneHostId == \A p, q \in Paths :
    file[p] # NoRecord /\ file[q] # NoRecord => file[p].host = file[q].host
=============================================================================
