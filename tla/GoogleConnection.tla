-------------------------- MODULE GoogleConnection -------------------------
(***************************************************************************)
(* Google Ads connections: start_google_oauth issues a single-use state,   *)
(* google_oauth_callback consumes it, exchanges the code with Google and   *)
(* saves the connection, its tokens and the advertising accounts in one    *)
(* transaction; google_connection_status lists the accounts of an          *)
(* organization (app/api/oauth.py); start_automation asks whether any      *)
(* connection is connected (app/api/automation.py).                        *)
(*                                                                         *)
(* A browser may deliver a callback any number of times.  Every Redis      *)
(* command, query, flush and commit is a step.  save_google_connection     *)
(* runs on the event loop, so two saves overlap on two replicas of the     *)
(* API; the rest of the callback overlaps on one.                          *)
(***************************************************************************)
EXTENDS Naturals

CONSTANTS
  Organizations,   \* the organizations that may connect an account
  Users,           \* Google's users: the external_user_id of a connection
  Accounts,        \* Google Ads customers: the external_account_id
  Flows,           \* authorizations: the nonces of start_google_oauth
  Handlers,        \* callbacks that may be handled at the same time
  None             \* no row, no value

Connections == Organizations \X Users     \* uq_platform_connection_identity
Tokens == [flow : Flows, user : Users]    \* what Google issued, and for whom
Credentials == [access : Tokens, refresh : Tokens \cup {None}]
AccountRows == [organization : Organizations, connection : Connections]
\* What Google answers: the identity, whether there is a refresh token, and the
\* accounts that listAccessibleCustomers names.
Grants == [user : Users, refresh : BOOLEAN, accounts : SUBSET Accounts]

ASSUME NoneAssumption ==
  None \notin Organizations \cup Flows \cup Tokens \cup Credentials \cup AccountRows
              \cup Grants \cup {"connected", "no_accounts"}

VARIABLES
  nonce,       \* Redis, oauth:google:<nonce>: not stored yet, unused or gone
  owner,       \* the organization signed into the state of each flow
  connection,  \* platform_connections.status
  credential,  \* oauth_credentials, by platform_connection_id
  account,     \* advertising_accounts, by external_account_id
  at,          \* where each callback is
  flow,        \* the flow whose state it brings
  grant,       \* Google's answer
  loaded,      \* the connection's status it found
  held,        \* the credential it found
  todo,        \* the discovered accounts it has not looked up yet
  seen,        \* the rows of those it has
  redeemed,    \* history: grants that Google gave for each flow
  reader       \* a status request between its two queries: the organization,
               \* the connections it found and, as history, the accounts that
               \* were attached then

stateVars == <<nonce, owner>>
dbVars == <<connection, credential, account>>
handlerVars == <<at, flow, grant, loaded, held, todo, seen>>
callbackVars == <<nonce, owner, connection, credential, account, at, flow, grant,
                  loaded, held, todo, seen, redeemed>>
vars == <<nonce, owner, connection, credential, account, at, flow, grant,
          loaded, held, todo, seen, redeemed, reader>>

Points == {"idle", "consume", "exchange", "find_connection", "insert_connection",
           "find_credential", "find_accounts", "commit"}

Unseen == [a \in Accounts |-> None]

Init ==
  /\ nonce = [f \in Flows |-> "none"]
  /\ owner = [f \in Flows |-> None]
  /\ connection = [c \in Connections |-> None]
  /\ credential = [c \in Connections |-> None]
  /\ account = [a \in Accounts |-> None]
  /\ at = [h \in Handlers |-> "idle"]
  /\ flow = [h \in Handlers |-> None]
  /\ grant = [h \in Handlers |-> None]
  /\ loaded = [h \in Handlers |-> None]
  /\ held = [h \in Handlers |-> None]
  /\ todo = [h \in Handlers |-> {}]
  /\ seen = [h \in Handlers |-> Unseen]
  /\ redeemed = [f \in Flows |-> 0]
  /\ reader = None

Goto(h, point) == at' = [at EXCEPT ![h] = point]

\* The request ends; an open transaction is rolled back.
ToIdle(h) ==
  /\ Goto(h, "idle")
  /\ flow' = [flow EXCEPT ![h] = None]
  /\ grant' = [grant EXCEPT ![h] = None]
  /\ loaded' = [loaded EXCEPT ![h] = None]
  /\ held' = [held EXCEPT ![h] = None]
  /\ todo' = [todo EXCEPT ![h] = {}]
  /\ seen' = [seen EXCEPT ![h] = Unseen]

-----------------------------------------------------------------------------
(* The single-use state                                                    *)

\* Mutant: organization_id is missing from the signed state.
StartWithoutOwner(f, o) ==
  /\ nonce[f] = "none"
  /\ nonce' = [nonce EXCEPT ![f] = "unused"]
  /\ UNCHANGED <<owner, dbVars, handlerVars, redeemed, reader>>

\* start_google_oauth: SET NX of a fresh nonce, then the signed state.  When
\* Redis fails nobody learns the nonce.
StartOAuth(f, o) ==
  /\ nonce[f] = "none"
  /\ nonce' = [nonce EXCEPT ![f] = "unused"]
  /\ owner' = [owner EXCEPT ![f] = o]
  /\ UNCHANGED <<dbVars, handlerVars, redeemed, reader>>

\* STATE_MAX_AGE_SECONDS: the key expires; the signature expires with it.
Expire(f) ==
  /\ nonce[f] = "unused"
  /\ nonce' = [nonce EXCEPT ![f] = "gone"]
  /\ UNCHANGED <<owner, dbVars, handlerVars, redeemed, reader>>

\* A callback with a code and a signed state.  Any other changes nothing.
Callback(h, f) ==
  /\ at[h] = "idle"
  /\ nonce[f] # "none"
  /\ Goto(h, "consume")
  /\ flow' = [flow EXCEPT ![h] = f]
  /\ UNCHANGED <<stateVars, dbVars, grant, loaded, held, todo, seen, redeemed, reader>>

\* Mutant: the state is looked at and left for its expiry.
ConsumeStateGet(h) ==
  /\ at[h] = "consume"
  /\ \/ nonce[flow[h]] = "unused" /\ Goto(h, "exchange")
        /\ UNCHANGED <<flow, grant, loaded, held, todo, seen>>
     \/ nonce[flow[h]] # "unused" /\ ToIdle(h)
  /\ UNCHANGED <<stateVars, dbVars, redeemed, reader>>

\* GETDEL: only the callback that finds "unused" goes on.
ConsumeState(h) ==
  /\ at[h] = "consume"
  /\ nonce' = [nonce EXCEPT ![flow[h]] = "gone"]
  /\ \/ /\ nonce[flow[h]] = "unused"
        /\ Goto(h, "exchange")
        /\ UNCHANGED <<flow, grant, loaded, held, todo, seen>>
     \/ nonce[flow[h]] # "unused" /\ ToIdle(h)
  /\ UNCHANGED <<owner, dbVars, redeemed, reader>>

\* exchange_google_code, fetch_google_identity and discover_google_ads_accounts;
\* an error of theirs is a step of Fail.
AskGoogle(h, g) ==
  /\ at[h] = "exchange"
  /\ grant' = [grant EXCEPT ![h] = g]
  /\ redeemed' = [redeemed EXCEPT ![flow[h]] = @ + 1]
  /\ Goto(h, "find_connection")
  /\ UNCHANGED <<stateVars, dbVars, flow, loaded, held, todo, seen, reader>>

-----------------------------------------------------------------------------
(* save_google_connection                                                  *)

Owner(h) == owner[flow[h]]

\* Mutant: a connection is looked up by Google's user alone.
ConnectionOfUser(h) ==
  LET found == {c \in Connections : c[2] = grant[h].user /\ connection[c] # None} IN
  IF found = {} THEN <<Owner(h), grant[h].user>> ELSE CHOOSE c \in found : TRUE

Connection(h) == <<Owner(h), grant[h].user>>
Token(h) == [flow |-> flow[h], user |-> grant[h].user]

FindConnection(h) ==
  /\ at[h] = "find_connection"
  /\ loaded' = [loaded EXCEPT ![h] = connection[Connection(h)]]
  /\ \/ connection[Connection(h)] = None /\ Goto(h, "insert_connection")
     \/ connection[Connection(h)] # None /\ Goto(h, "find_credential")
  /\ UNCHANGED <<stateVars, dbVars, flow, grant, held, todo, seen, redeemed, reader>>

\* Mutant: the insert is flushed in a second session, while the first has the row.
InsertingElsewhere(h) ==
  at[h] \in {"insert_connection", "find_credential", "find_accounts", "commit"}

\* Its transaction has inserted the connection and not ended yet.
Inserting(h) ==
  /\ at[h] \in {"find_credential", "find_accounts", "commit"}
  /\ loaded[h] = None

\* flush: the INSERT waits for another transaction's of the same key, and raises
\* if the key is committed by then; the callback answers an error.
InsertConnection(h) ==
  /\ at[h] = "insert_connection"
  /\ \A i \in Handlers : Inserting(i) => Connection(i) # Connection(h)
  /\ \/ connection[Connection(h)] # None /\ ToIdle(h)
     \/ /\ connection[Connection(h)] = None
        /\ Goto(h, "find_credential")
        /\ UNCHANGED <<flow, grant, loaded, held, todo, seen>>
  /\ UNCHANGED <<stateVars, dbVars, redeemed, reader>>

FindCredential(h) ==
  /\ at[h] = "find_credential"
  /\ held' = [held EXCEPT ![h] = credential[Connection(h)]]
  /\ todo' = [todo EXCEPT ![h] = grant[h].accounts]
  /\ Goto(h, IF grant[h].accounts = {} THEN "commit" ELSE "find_accounts")
  /\ UNCHANGED <<stateVars, dbVars, flow, grant, loaded, seen, redeemed, reader>>

FindAccount(h, a) ==
  /\ at[h] = "find_accounts"
  /\ a \in todo[h]
  /\ seen' = [seen EXCEPT ![h][a] = account[a]]
  /\ todo' = [todo EXCEPT ![h] = @ \ {a}]
  /\ Goto(h, IF todo[h] = {a} THEN "commit" ELSE "find_accounts")
  /\ UNCHANGED <<stateVars, dbVars, flow, grant, loaded, held, redeemed, reader>>

\* An assignment of the value that was loaded is no UPDATE of the column.
Assigned(stored, old, new) == IF new = old THEN stored ELSE new

NewStatus(h) ==
  LET new == IF grant[h].accounts = {} THEN "no_accounts" ELSE "connected" IN
  IF loaded[h] = None THEN new
  ELSE Assigned(connection[Connection(h)], loaded[h], new)

\* Mutant: the token response is stored as it is.
CredentialReplaced(h) ==
  [access |-> Token(h), refresh |-> IF grant[h].refresh THEN Token(h) ELSE None]

\* Google leaves the refresh token out of later answers: the stored one stays.
NewCredential(h) ==
  [access |-> Token(h),
   refresh |-> IF grant[h].refresh THEN Token(h)
               ELSE IF held[h] = None THEN None
               ELSE credential[Connection(h)].refresh]

\* Mutant: accounts of other organizations are connected as well.
AllDiscovered(h) == grant[h].accounts

\* Mutant: a new account is built and never added to the session.
KnownAccounts(h) ==
  {a \in grant[h].accounts :
     seen[h][a] # None /\ seen[h][a].organization = Owner(h)}

\* The discovered accounts that no other organization has.
Saved(h) ==
  {a \in grant[h].accounts :
     seen[h][a] = None \/ seen[h][a].organization = Owner(h)}

NewAccount(h, a) ==
  IF seen[h][a] = None
  THEN [organization |-> Owner(h), connection |-> Connection(h)]
  ELSE [account[a] EXCEPT
          !.connection = Assigned(@, seen[h][a].connection, Connection(h))]

\* An account, or the credential of a connection, is inserted although it is there.
Conflict(h) ==
  \/ held[h] = None /\ credential[Connection(h)] # None
  \/ \E a \in Saved(h) : seen[h][a] = None /\ account[a] # None

\* The connection, its tokens and its accounts, or nothing.
Commit(h) ==
  /\ at[h] = "commit"
  /\ \/ /\ ~Conflict(h)
        /\ connection' = [connection EXCEPT ![Connection(h)] = NewStatus(h)]
        /\ credential' = [credential EXCEPT ![Connection(h)] = NewCredential(h)]
        /\ account' = [a \in Accounts |->
                         IF a \in Saved(h) THEN NewAccount(h, a) ELSE account[a]]
     \/ Conflict(h) /\ UNCHANGED dbVars
  /\ ToIdle(h)
  /\ UNCHANGED <<stateVars, redeemed, reader>>

\* Redis, Google, the vault or the database raises, or the process dies.
Fail(h) ==
  /\ at[h] # "idle"
  /\ ToIdle(h)
  /\ UNCHANGED <<stateVars, dbVars, redeemed, reader>>

-----------------------------------------------------------------------------
google_oauth_callback(h) ==
  \/ ConsumeState(h)
  \/ \E g \in Grants : AskGoogle(h, g)
  \/ FindConnection(h) \/ InsertConnection(h) \/ FindCredential(h)
  \/ \E a \in Accounts : FindAccount(h, a)
  \/ Commit(h)

-----------------------------------------------------------------------------
(* The readers.  They write nothing, so one status request at a time stands *)
(* for any number of them.                                                 *)

\* start_automation: the number of connected connections is not zero.
Ready == \E c \in Connections : connection[c] = "connected"

AccountsOf(o) == {a \in Accounts : account[a] # None /\ account[a].organization = o}

\* google_connection_status, first query.  The answer to an organization without a
\* connection is the empty list, which its second query would also give.
StatusFindsConnections(o) ==
  /\ reader = None
  /\ reader' = [organization |-> o,
                connections |-> {c \in Connections : c[1] = o /\ connection[c] # None},
                attached |-> {<<a, account[a].connection>> : a \in AccountsOf(o)}]
  /\ UNCHANGED callbackVars

\* The second query: the organization's accounts of those connections.
ListedAccounts ==
  {a \in AccountsOf(reader.organization) : account[a].connection \in reader.connections}

StatusAnswers ==
  /\ reader # None
  /\ reader' = None
  /\ UNCHANGED callbackVars

-----------------------------------------------------------------------------
Next ==
  \/ \E f \in Flows :
       \/ \E o \in Organizations : StartOAuth(f, o)
       \/ Expire(f)
       \/ \E h \in Handlers : Callback(h, f)
  \/ \E h \in Handlers : google_oauth_callback(h) \/ Fail(h)
  \/ \E o \in Organizations : StatusFindsConnections(o)
  \/ StatusAnswers

Spec == Init /\ [][Next]_vars

\* A callback that is being handled goes on; nothing is fair about users.
FairSpec == Spec /\ \A h \in Handlers : WF_vars(google_oauth_callback(h))

-----------------------------------------------------------------------------
TypeOK ==
  /\ nonce \in [Flows -> {"none", "unused", "gone"}]
  /\ owner \in [Flows -> Organizations \cup {None}]
  /\ connection \in [Connections -> {"connected", "no_accounts", None}]
  /\ credential \in [Connections -> Credentials \cup {None}]
  /\ account \in [Accounts -> AccountRows \cup {None}]
  /\ at \in [Handlers -> Points]
  /\ flow \in [Handlers -> Flows \cup {None}]
  /\ grant \in [Handlers -> Grants \cup {None}]
  /\ loaded \in [Handlers -> {"connected", "no_accounts", None}]
  /\ held \in [Handlers -> Credentials \cup {None}]
  /\ todo \in [Handlers -> SUBSET Accounts]
  /\ seen \in [Handlers -> [Accounts -> AccountRows \cup {None}]]
  /\ redeemed \in [Flows -> Nat]
  /\ reader \in {None} \cup [organization : Organizations,
                            connections : SUBSET Connections,
                            attached : SUBSET (Accounts \X Connections)]
  /\ \A f \in Flows : nonce[f] # "none" => owner[f] \in Organizations
  /\ \A h \in Handlers :
       /\ at[h] # "idle" => flow[h] \in Flows /\ nonce[flow[h]] # "none"
       /\ at[h] \notin {"idle", "consume", "exchange"} => grant[h] \in Grants

\* A state buys one exchange, however often its callback is delivered and however
\* the deliveries overlap (consume_single_use_state).
StateUsedOnce == \A f \in Flows : redeemed[f] <= 1

\* The tokens of a connection were issued to its user, for an authorization its
\* organization started, and are there as soon as the connection is
\* (save_google_connection against callbacks that overlap).
TokensOfTheirUser ==
  \A c \in Connections :
    /\ connection[c] = None <=> credential[c] = None
    /\ credential[c] # None =>
         \A t \in {credential[c].access, credential[c].refresh} \ {None} :
           owner[t.flow] = c[1] /\ t.user = c[2]

\* The status of an organization lists every account that is attached to the same
\* connection when its two queries run, whatever callbacks commit between them: an
\* account is attached only to stored connections of its own organization, although
\* its row is read before it is written (save_google_connection against
\* google_connection_status).
EveryAccountListed ==
  reader # None =>
    \A x \in reader.attached :
      account[x[1]].connection = x[2] => x[1] \in ListedAccounts

\* Automation is ready only when some advertising account is stored: a callback
\* that discovers accounts stores them, or they are stored already
\* (start_automation, save_google_connection).
ReadyNeedsAccount == Ready => \E a \in Accounts : account[a] # None

\* A stored refresh token is replaced by a newer one, never lost, and an account
\* never leaves its organization, however the callbacks for them overlap.
NothingIsTakenAway ==
  [][/\ \A c \in Connections :
          credential[c] # None /\ credential[c].refresh # None
            => credential'[c] # None /\ credential'[c].refresh # None
     /\ \A a \in Accounts :
          account[a] # None
            => /\ account'[a] # None
               /\ account'[a].organization = account[a].organization]_vars

\* Every callback is answered, also when it waits for another one's insert: no
\* handler is busy for good.
CallbacksAnswered == \A h \in Handlers : []<>(at[h] = "idle")
=============================================================================
