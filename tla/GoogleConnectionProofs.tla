----------------------- MODULE GoogleConnectionProofs ----------------------
(***************************************************************************)
(* Theorems about Google Ads connections, for any number of organizations, *)
(* users, accounts, authorizations and overlapping callbacks.              *)
(***************************************************************************)
EXTENDS GoogleConnection, TLAPS

Statuses == {"connected", "no_accounts"}

\* A status request changes nothing that a callback knows or writes.
LEMMA ReadersWriteNothing ==
  ASSUME [Next]_vars,
         \A f \in Flows :
           /\ \A o \in Organizations : ~StartOAuth(f, o)
           /\ ~Expire(f)
           /\ \A h \in Handlers : ~Callback(h, f),
         \A h \in Handlers : ~google_oauth_callback(h) /\ ~Fail(h)
  PROVE  UNCHANGED callbackVars
BY DEF Next, vars, callbackVars, StatusFindsConnections, StatusAnswers

\* A callback past the exchange with Google knows its flow, user and connection.
LEMMA InHand ==
  ASSUME TypeOK, NEW h \in Handlers, at[h] \notin {"idle", "consume", "exchange"}
  PROVE  /\ flow[h] \in Flows /\ nonce[flow[h]] # "none"
         /\ grant[h] \in Grants
         /\ Owner(h) \in Organizations
         /\ Connection(h) \in Connections
         /\ Connection(h)[1] = Owner(h) /\ Connection(h)[2] = grant[h].user
         /\ Token(h) \in Tokens
         /\ Token(h).flow = flow[h] /\ Token(h).user = grant[h].user
         /\ Saved(h) \subseteq Accounts
<1>1. flow[h] \in Flows /\ nonce[flow[h]] # "none" /\ grant[h] \in Grants
  BY DEF TypeOK
<1>2. Owner(h) \in Organizations
  BY <1>1 DEF TypeOK, Owner
<1> QED BY <1>1, <1>2 DEF Connection, Token, Tokens, Connections, Grants, Saved

\* What a commit writes has its type.
LEMMA NewRowsType ==
  ASSUME TypeOK, NEW h \in Handlers, at[h] = "commit",
         loaded[h] # None => connection[Connection(h)] # None,
         held[h] # None => credential[Connection(h)] # None,
         \A a \in Accounts : seen[h][a] # None => account[a] # None
  PROVE  /\ NewStatus(h) \in Statuses
         /\ NewCredential(h) \in Credentials
         /\ \A a \in Accounts : NewAccount(h, a) \in AccountRows
<1> USE InHand
<1>1. NewStatus(h) \in Statuses
  BY DEF NewStatus, Assigned, TypeOK, Statuses
<1>2. NewCredential(h) \in Credentials
  <2>1. held[h] # None => credential[Connection(h)] \in Credentials
    BY DEF TypeOK
  <2>2. (IF grant[h].refresh THEN Token(h)
         ELSE IF held[h] = None THEN None
         ELSE credential[Connection(h)].refresh) \in Tokens \cup {None}
    BY <2>1 DEF Credentials
  <2> QED BY <2>2 DEF NewCredential, Credentials
<1>3. ASSUME NEW a \in Accounts PROVE NewAccount(h, a) \in AccountRows
  <2>1. CASE seen[h][a] = None
    BY <2>1 DEF NewAccount, AccountRows
  <2>2. CASE seen[h][a] # None
    <3>1. account[a] \in AccountRows
      BY <2>2 DEF TypeOK
    <3> QED BY <2>2, <3>1 DEF NewAccount, AccountRows, Assigned
  <2> QED BY <2>1, <2>2
<1> QED BY <1>1, <1>2, <1>3

-----------------------------------------------------------------------------
(* Rows are never removed, so what a transaction has read stays there.     *)

ReadStays ==
  \A h \in Handlers :
    /\ at[h] = "insert_connection" => loaded[h] = None
    /\ at[h] \in {"find_credential", "find_accounts", "commit"} /\ loaded[h] # None
         => connection[Connection(h)] # None
    /\ at[h] \in {"find_accounts", "commit"} /\ held[h] # None
         => credential[Connection(h)] # None
    /\ \A a \in Accounts :
         seen[h][a] # None =>
           account[a] # None /\ account[a].organization = seen[h][a].organization

\* Every step keeps the types.
LEMMA TypeOKStep == TypeOK /\ ReadStays /\ [Next]_vars => TypeOK'
<1> SUFFICES ASSUME TypeOK, ReadStays, [Next]_vars PROVE TypeOK'
  OBVIOUS
<1> USE NoneAssumption
<1> USE DEF TypeOK, stateVars, dbVars, handlerVars, Points, Goto, ToIdle, Unseen
<1>1. ASSUME NEW f \in Flows, NEW o \in Organizations, StartOAuth(f, o) PROVE TypeOK'
  BY <1>1 DEF StartOAuth
<1>2. ASSUME NEW f \in Flows, Expire(f) PROVE TypeOK'
  BY <1>2 DEF Expire
<1>3. ASSUME NEW f \in Flows, NEW h \in Handlers, Callback(h, f) PROVE TypeOK'
  BY <1>3 DEF Callback
<1>4. ASSUME NEW h \in Handlers, google_oauth_callback(h) PROVE TypeOK'
  <2>1. CASE ConsumeState(h)
    <3>1. flow[h] \in Flows /\ nonce' \in [Flows -> {"none", "unused", "gone"}]
      BY <2>1 DEF ConsumeState
    <3>2. \A f \in Flows : nonce'[f] # "none" => nonce[f] # "none" \/ f = flow[h]
      BY <2>1 DEF ConsumeState
    <3>3. \A f \in Flows : nonce[f] # "none" => nonce'[f] # "none"
      BY <2>1 DEF ConsumeState
    <3>4. CASE ToIdle(h) BY <2>1, <3>1, <3>2, <3>3, <3>4 DEF ConsumeState
    <3>5. CASE /\ Goto(h, "exchange")
               /\ UNCHANGED <<flow, grant, loaded, held, todo, seen>>
      BY <2>1, <3>1, <3>2, <3>3, <3>5 DEF ConsumeState
    <3> QED BY <2>1, <3>4, <3>5 DEF ConsumeState
  <2>2. ASSUME NEW g \in Grants, AskGoogle(h, g) PROVE TypeOK'
    BY <2>2 DEF AskGoogle
  <2>3. CASE FindConnection(h)
    <3>1. Connection(h) \in Connections BY <2>3, InHand DEF FindConnection
    <3> QED BY <2>3, <3>1 DEF FindConnection
  <2>4. CASE InsertConnection(h)
    <3>1. CASE ToIdle(h) BY <2>4, <3>1 DEF InsertConnection
    <3>2. CASE /\ Goto(h, "find_credential")
               /\ UNCHANGED <<flow, grant, loaded, held, todo, seen>>
      BY <2>4, <3>2, InHand DEF InsertConnection
    <3> QED BY <2>4, <3>1, <3>2 DEF InsertConnection
  <2>5. CASE FindCredential(h)
    <3>1. Connection(h) \in Connections /\ grant[h] \in Grants
      BY <2>5, InHand DEF FindCredential
    <3>2. grant[h].accounts \in SUBSET Accounts BY <3>1 DEF Grants
    <3> QED BY <2>5, <3>1, <3>2 DEF FindCredential
  <2>6. ASSUME NEW a \in Accounts, FindAccount(h, a) PROVE TypeOK'
    BY <2>6 DEF FindAccount
  <2>7. CASE Commit(h)
    <3>0. at[h] = "commit" BY <2>7 DEF Commit
    <3>1. CASE UNCHANGED dbVars BY <2>7, <3>1 DEF Commit
    <3>2. CASE /\ connection' = [connection EXCEPT ![Connection(h)] = NewStatus(h)]
               /\ credential' = [credential EXCEPT ![Connection(h)] = NewCredential(h)]
               /\ account' = [a \in Accounts |->
                    IF a \in Saved(h) THEN NewAccount(h, a) ELSE account[a]]
      <4>1. /\ NewStatus(h) \in Statuses /\ NewCredential(h) \in Credentials
            /\ \A a \in Accounts : NewAccount(h, a) \in AccountRows
        BY <3>0, NewRowsType DEF ReadStays
      <4>2. connection' \in [Connections -> {"connected", "no_accounts", None}]
        BY <3>2, <4>1 DEF Statuses
      <4>3. credential' \in [Connections -> Credentials \cup {None}]
        BY <3>2, <4>1
      <4>4. account' \in [Accounts -> AccountRows \cup {None}]
        BY <3>2, <4>1
      <4> QED BY <2>7, <4>2, <4>3, <4>4 DEF Commit
    <3> QED BY <2>7, <3>1, <3>2 DEF Commit
  <2> QED BY <1>4, <2>1, <2>2, <2>3, <2>4, <2>5, <2>6, <2>7 DEF google_oauth_callback
<1>5. ASSUME NEW h \in Handlers, Fail(h) PROVE TypeOK'
  BY <1>5 DEF Fail
<1>6. ASSUME NEW o \in Organizations, StatusFindsConnections(o) PROVE TypeOK'
  <2>1. \A a \in AccountsOf(o) : a \in Accounts /\ account[a].connection \in Connections
    BY DEF AccountsOf, AccountRows
  <2> QED BY <1>6, <2>1 DEF StatusFindsConnections, callbackVars
<1>7. CASE StatusAnswers
  BY <1>7 DEF StatusAnswers, callbackVars
<1>8. CASE UNCHANGED vars
  BY <1>8 DEF vars
<1> QED BY <1>1, <1>2, <1>3, <1>4, <1>5, <1>6, <1>7, <1>8 DEF Next

\* A handler's step leaves what the others hold alone, and so does everybody the
\* owner of an issued state.
LEMMA OwnerStays ==
  ASSUME TypeOK, [Next]_vars
  PROVE  \A f \in Flows : nonce[f] # "none" => owner'[f] = owner[f] /\ nonce'[f] # "none"
<1> USE DEF TypeOK, stateVars
<1>1. ASSUME NEW f \in Flows, NEW o \in Organizations, StartOAuth(f, o)
      PROVE  \A g \in Flows : nonce[g] # "none" => owner'[g] = owner[g] /\ nonce'[g] # "none"
  BY <1>1 DEF StartOAuth
<1>2. ASSUME NEW f \in Flows, Expire(f)
      PROVE  \A g \in Flows : nonce[g] # "none" => owner'[g] = owner[g] /\ nonce'[g] # "none"
  BY <1>2 DEF Expire
<1>3. ASSUME NEW f \in Flows, NEW h \in Handlers, Callback(h, f)
      PROVE  \A g \in Flows : nonce[g] # "none" => owner'[g] = owner[g] /\ nonce'[g] # "none"
  BY <1>3 DEF Callback
<1>4. ASSUME NEW h \in Handlers, google_oauth_callback(h) \/ Fail(h)
      PROVE  \A g \in Flows : nonce[g] # "none" => owner'[g] = owner[g] /\ nonce'[g] # "none"
  <2>1. CASE ConsumeState(h) BY <2>1 DEF ConsumeState
  <2>2. CASE ~ConsumeState(h)
    <3>1. UNCHANGED stateVars
      BY <1>4, <2>2 DEF google_oauth_callback, AskGoogle, FindConnection,
         InsertConnection, FindCredential, FindAccount, Commit, Fail
    <3> QED BY <3>1
  <2> QED BY <2>1, <2>2
<1>5. CASE UNCHANGED callbackVars
  BY <1>5 DEF callbackVars
<1> QED BY <1>1, <1>2, <1>3, <1>4, <1>5, ReadersWriteNothing

\* What a commit that goes through does to the rows.
LEMMA CommitWrites ==
  ASSUME TypeOK, ReadStays, NEW h \in Handlers, Commit(h), dbVars' # dbVars
  PROVE  /\ Connection(h) \in Connections
         /\ \A c \in Connections : connection'[c] =
              IF c = Connection(h) THEN NewStatus(h) ELSE connection[c]
         /\ \A c \in Connections : credential'[c] =
              IF c = Connection(h) THEN NewCredential(h) ELSE credential[c]
         /\ \A a \in Accounts : account'[a] =
              IF a \in Saved(h) THEN NewAccount(h, a) ELSE account[a]
         /\ NewStatus(h) \in Statuses /\ NewCredential(h) \in Credentials
         /\ \A a \in Accounts : NewAccount(h, a) \in AccountRows
         /\ held[h] = None => credential[Connection(h)] = None
         /\ \A a \in Saved(h) : seen[h][a] = None => account[a] = None
         /\ at[h] = "commit"
         /\ ToIdle(h) /\ UNCHANGED stateVars /\ UNCHANGED redeemed
<1>1. at[h] = "commit" /\ ToIdle(h) /\ UNCHANGED stateVars /\ UNCHANGED redeemed
  BY DEF Commit
<1>2. /\ ~Conflict(h)
      /\ connection' = [connection EXCEPT ![Connection(h)] = NewStatus(h)]
      /\ credential' = [credential EXCEPT ![Connection(h)] = NewCredential(h)]
      /\ account' = [a \in Accounts |->
                       IF a \in Saved(h) THEN NewAccount(h, a) ELSE account[a]]
  BY DEF Commit
<1>3. Connection(h) \in Connections
  BY <1>1, InHand
<1>4. /\ NewStatus(h) \in Statuses /\ NewCredential(h) \in Credentials
      /\ \A a \in Accounts : NewAccount(h, a) \in AccountRows
  BY <1>1, NewRowsType DEF ReadStays
<1>5. /\ DOMAIN connection = Connections /\ DOMAIN credential = Connections
  BY DEF TypeOK
<1>6. /\ held[h] = None => credential[Connection(h)] = None
      /\ \A a \in Saved(h) : seen[h][a] = None => account[a] = None
  BY <1>2 DEF Conflict
<1> QED BY <1>1, <1>2, <1>3, <1>4, <1>5, <1>6

\* Only a commit writes rows.
LEMMA OthersRead ==
  ASSUME [Next]_vars, \A h \in Handlers : ~Commit(h)
  PROVE  UNCHANGED dbVars
BY DEF Next, vars, callbackVars, StatusFindsConnections, StatusAnswers, StartOAuth, Expire, Callback, google_oauth_callback, ConsumeState,
   AskGoogle, FindConnection, InsertConnection, FindCredential, FindAccount, Fail, dbVars

\* Rows and refresh tokens stay, and an account keeps its organization.
RowsStay ==
  /\ \A c \in Connections :
       /\ connection[c] # None => connection'[c] # None
       /\ credential[c] # None => credential'[c] # None
       /\ credential[c] # None /\ credential[c].refresh # None
            => credential'[c].refresh # None
  /\ \A a \in Accounts :
       account[a] # None =>
         account'[a] # None /\ account'[a].organization = account[a].organization

LEMMA RowsStayStep ==
  ASSUME TypeOK, ReadStays, [Next]_vars
  PROVE  RowsStay
<1> USE NoneAssumption
<1>1. ASSUME NEW h \in Handlers, Commit(h), dbVars' # dbVars PROVE RowsStay
  <2> DEFINE C == Connection(h)
  <2>a. /\ C \in Connections /\ at[h] = "commit"
        /\ \A c \in Connections :
             connection'[c] = IF c = C THEN NewStatus(h) ELSE connection[c]
        /\ \A c \in Connections :
             credential'[c] = IF c = C THEN NewCredential(h) ELSE credential[c]
        /\ \A a \in Accounts :
             account'[a] = IF a \in Saved(h) THEN NewAccount(h, a) ELSE account[a]
        /\ NewStatus(h) \in Statuses /\ NewCredential(h) \in Credentials
        /\ \A a \in Accounts : NewAccount(h, a) \in AccountRows
        /\ held[h] = None => credential[C] = None
        /\ \A a \in Saved(h) : seen[h][a] = None => account[a] = None
    BY <1>1, CommitWrites
  <2> HIDE DEF C
  <2>0. NewStatus(h) # None /\ NewCredential(h) # None
    BY <2>a DEF Statuses
  <2>1. ASSUME NEW c \in Connections
        PROVE  /\ connection[c] # None => connection'[c] # None
               /\ credential[c] # None => credential'[c] # None
    <3>1. CASE c = C BY <2>a, <2>0, <3>1
    <3>2. CASE c # C BY <2>a, <3>2
    <3> QED BY <3>1, <3>2
  <2>2. ASSUME NEW c \in Connections, credential[c] # None, credential[c].refresh # None
        PROVE  credential'[c].refresh # None
    <3>1. CASE c # C
      BY <2>a, <2>2, <3>1
    <3>2. CASE c = C
      <4>1. held[h] # None
        BY <2>a, <2>2, <3>2
      <4>2. Token(h) \in Tokens
        BY <2>a, InHand
      <4>3. Token(h) # None
        BY <4>2
      <4>4. NewCredential(h).refresh # None
        BY <2>2, <3>2, <4>1, <4>3 DEF NewCredential, C
      <4> QED BY <2>a, <3>2, <4>4
    <3> QED BY <3>1, <3>2
  <2>3. ASSUME NEW a \in Accounts, account[a] # None
        PROVE  account'[a] # None /\ account'[a].organization = account[a].organization
    <3>1. CASE a \notin Saved(h)
      BY <2>a, <2>3, <3>1
    <3>2. CASE a \in Saved(h)
      <4>1. seen[h][a] # None
        BY <2>a, <2>3, <3>2
      <4>2. account[a] \in AccountRows
        BY <2>3 DEF TypeOK
      <4>3. NewAccount(h, a).organization = account[a].organization
        BY <4>1, <4>2 DEF NewAccount, AccountRows
      <4>4. account'[a] = NewAccount(h, a) /\ NewAccount(h, a) \in AccountRows
        BY <2>a, <3>2
      <4> QED BY <4>3, <4>4
    <3> QED BY <3>1, <3>2
  <2> QED BY <2>1, <2>2, <2>3 DEF RowsStay
<1>2. CASE UNCHANGED dbVars
  BY <1>2 DEF RowsStay, dbVars
<1> QED BY <1>1, <1>2, OthersRead
\* What one handler has in hand about the rows.
ReadBy(h) ==
  /\ at[h] = "insert_connection" => loaded[h] = None
  /\ at[h] \in {"find_credential", "find_accounts", "commit"} /\ loaded[h] # None
       => connection[Connection(h)] # None
  /\ at[h] \in {"find_accounts", "commit"} /\ held[h] # None
       => credential[Connection(h)] # None
  /\ \A a \in Accounts :
       seen[h][a] # None =>
         account[a] # None /\ account[a].organization = seen[h][a].organization

\* A handler that does not move keeps what it has read.
LEMMA StillRead ==
  ASSUME TypeOK, ReadStays, [Next]_vars, NEW h \in Handlers,
         at'[h] = at[h], flow'[h] = flow[h], grant'[h] = grant[h],
         loaded'[h] = loaded[h], held'[h] = held[h], seen'[h] = seen[h]
  PROVE  ReadBy(h)'
<1>1. RowsStay BY RowsStayStep
<1>2. ReadBy(h) BY DEF ReadStays, ReadBy
<1>3. ASSUME at[h] \in {"find_credential", "find_accounts", "commit"}
      PROVE  Connection(h)' = Connection(h) /\ Connection(h) \in Connections
  <2>1. flow[h] \in Flows /\ nonce[flow[h]] # "none" /\ Connection(h) \in Connections
    BY <1>3, InHand
  <2>2. owner'[flow[h]] = owner[flow[h]]
    BY <2>1, OwnerStays
  <2> QED BY <2>1, <2>2 DEF Connection, Owner
<1>4. \A a \in Accounts :
        seen'[h][a] # None =>
          account'[a] # None /\ account'[a].organization = seen'[h][a].organization
  BY <1>1, <1>2 DEF ReadBy, RowsStay
<1> QED BY <1>1, <1>2, <1>3, <1>4 DEF ReadBy, RowsStay

LEMMA ReadStaysStep ==
  ASSUME TypeOK, ReadStays, [Next]_vars
  PROVE  ReadStays'
<1>1. \A h \in Handlers : ReadBy(h)
  BY DEF ReadStays, ReadBy
<1> SUFFICES ASSUME NEW h \in Handlers PROVE ReadBy(h)'
  BY DEF ReadStays, ReadBy
<1> DEFINE Still == /\ at'[h] = at[h] /\ flow'[h] = flow[h] /\ grant'[h] = grant[h]
                    /\ loaded'[h] = loaded[h] /\ held'[h] = held[h]
                    /\ seen'[h] = seen[h]
<1>3. Still => ReadBy(h)'
  BY StillRead
<1>4. ASSUME NEW i \in Handlers, ToIdle(i) PROVE ReadBy(h)'
  <2>1. CASE i = h
    BY <1>4, <2>1 DEF ToIdle, Goto, TypeOK, ReadBy, Unseen
  <2>2. CASE i # h
    <3>1. Still BY <1>4, <2>2 DEF ToIdle, Goto, TypeOK
    <3> QED BY <1>3, <3>1
  <2> QED BY <2>1, <2>2
<1>5. ASSUME NEW f \in Flows,
             \/ \E o \in Organizations : StartOAuth(f, o)
             \/ Expire(f)
             \/ \E i \in Handlers : Callback(i, f)
      PROVE  ReadBy(h)'
  <2>1. CASE Still BY <1>3, <2>1
  <2>2. CASE ~Still
    <3>1. Callback(h, f)
      BY <1>5, <2>2 DEF StartOAuth, Expire, Callback, Goto, handlerVars, TypeOK
    <3> QED BY <3>1, <1>1 DEF Callback, Goto, dbVars, TypeOK, ReadBy
  <2> QED BY <2>1, <2>2
<1>6. ASSUME NEW i \in Handlers, google_oauth_callback(i), i # h PROVE Still
  BY <1>6 DEF google_oauth_callback, ConsumeState, AskGoogle, FindConnection,
     InsertConnection, FindCredential, FindAccount, Commit, ToIdle, Goto, TypeOK
<1>7. ASSUME google_oauth_callback(h) PROVE ReadBy(h)'
  <2> USE <1>1 DEF ReadBy, Goto, TypeOK
  <2>1. CASE ConsumeState(h)
    <3>1. CASE ToIdle(h) BY <1>4, <3>1
    <3>2. CASE Goto(h, "exchange") /\ UNCHANGED seen
      BY <2>1, <3>2 DEF ConsumeState, dbVars
    <3> QED BY <2>1, <3>1, <3>2 DEF ConsumeState
  <2>2. ASSUME NEW g \in Grants, AskGoogle(h, g) PROVE ReadBy(h)'
    BY <2>2 DEF AskGoogle, dbVars
  <2>3. CASE FindConnection(h)
    <3>1. Connection(h)' = Connection(h)
      BY <2>3 DEF FindConnection, Connection, Owner, stateVars
    <3> QED BY <2>3, <3>1 DEF FindConnection, dbVars
  <2>4. CASE InsertConnection(h)
    <3>1. CASE ToIdle(h) BY <1>4, <3>1
    <3>2. CASE Goto(h, "find_credential") /\ UNCHANGED <<loaded, seen>>
      BY <2>4, <3>2 DEF InsertConnection, dbVars
    <3> QED BY <2>4, <3>1, <3>2 DEF InsertConnection
  <2>5. CASE FindCredential(h)
    <3>1. Connection(h)' = Connection(h)
      BY <2>5 DEF FindCredential, Connection, Owner, stateVars
    <3> QED BY <2>5, <3>1 DEF FindCredential, dbVars
  <2>6. ASSUME NEW a \in Accounts, FindAccount(h, a) PROVE ReadBy(h)'
    <3>1. Connection(h)' = Connection(h)
      BY <2>6 DEF FindAccount, Connection, Owner, stateVars
    <3>2. /\ UNCHANGED dbVars /\ UNCHANGED <<loaded, held>>
          /\ at[h] = "find_accounts" /\ at'[h] \in {"find_accounts", "commit"}
      BY <2>6 DEF FindAccount
    <3>3. \A b \in Accounts : seen'[h][b] = IF b = a THEN account[a] ELSE seen[h][b]
      BY <2>6 DEF FindAccount
    <3>4. \A b \in Accounts :
            seen'[h][b] # None =>
              account'[b] # None /\ account'[b].organization = seen'[h][b].organization
      <4>1. account' = account
        BY <3>2 DEF dbVars
      <4>2. \A b \in Accounts :
              seen[h][b] # None =>
                account[b] # None /\ account[b].organization = seen[h][b].organization
        OBVIOUS
      <4> QED BY ONLY <3>3, <4>1, <4>2
    <3>5. /\ loaded'[h] # None => connection'[Connection(h)'] # None
          /\ held'[h] # None => credential'[Connection(h)'] # None
      BY <3>1, <3>2 DEF dbVars
    <3> QED BY <3>2, <3>4, <3>5
  <2>7. CASE Commit(h)
    BY <1>4, <2>7 DEF Commit
  <2> QED BY <1>7, <2>1, <2>2, <2>3, <2>4, <2>5, <2>6, <2>7 DEF google_oauth_callback
<1>8. ASSUME NEW i \in Handlers, Fail(i) PROVE ReadBy(h)'
  BY <1>4, <1>8 DEF Fail
<1>9. CASE UNCHANGED callbackVars
  BY <1>3, <1>9 DEF callbackVars
<1> HIDE DEF Still
<1> QED BY <1>3, <1>5, <1>6, <1>7, <1>8, <1>9, ReadersWriteNothing
-----------------------------------------------------------------------------
(* A state that can still be consumed has bought nothing, and a consumed    *)
(* one is in the hands of one callback at most.                             *)

AtMostOneBuyer ==
  /\ \A f \in Flows : nonce[f] \in {"none", "unused"} => redeemed[f] = 0
  /\ \A h \in Handlers :
       at[h] = "exchange" => nonce[flow[h]] = "gone" /\ redeemed[flow[h]] = 0
  /\ \A h, i \in Handlers :
       at[h] = "exchange" /\ at[i] = "exchange" /\ flow[h] = flow[i] => h = i

LEMMA AtMostOneBuyerStep ==
  ASSUME TypeOK, AtMostOneBuyer, StateUsedOnce, [Next]_vars
  PROVE  AtMostOneBuyer' /\ StateUsedOnce'
<1> USE DEF TypeOK, AtMostOneBuyer, StateUsedOnce, Goto
<1>1. ASSUME UNCHANGED redeemed, UNCHANGED nonce,
             \A h \in Handlers :
               at'[h] = "exchange" => at[h] = "exchange" /\ flow'[h] = flow[h]
      PROVE  AtMostOneBuyer' /\ StateUsedOnce'
  BY <1>1
<1>2. ASSUME NEW f \in Flows, NEW o \in Organizations, StartOAuth(f, o)
      PROVE  AtMostOneBuyer' /\ StateUsedOnce'
  BY <1>2 DEF StartOAuth, handlerVars
<1>3. ASSUME NEW f \in Flows, Expire(f) PROVE AtMostOneBuyer' /\ StateUsedOnce'
  BY <1>3 DEF Expire, handlerVars
<1>4. ASSUME NEW f \in Flows, NEW h \in Handlers, Callback(h, f)
      PROVE  AtMostOneBuyer' /\ StateUsedOnce'
  BY <1>1, <1>4 DEF Callback, stateVars
<1>5. ASSUME NEW h \in Handlers, ToIdle(h), UNCHANGED redeemed, UNCHANGED nonce
      PROVE  AtMostOneBuyer' /\ StateUsedOnce'
  BY <1>1, <1>5 DEF ToIdle
<1>6. ASSUME NEW h \in Handlers, google_oauth_callback(h)
      PROVE  AtMostOneBuyer' /\ StateUsedOnce'
  <2>1. CASE ConsumeState(h)
    <3>1. /\ UNCHANGED redeemed /\ flow[h] \in Flows /\ nonce[flow[h]] # "none"
          /\ \A f \in Flows : nonce'[f] = IF f = flow[h] THEN "gone" ELSE nonce[f]
      BY <2>1 DEF ConsumeState
    <3>2. CASE nonce[flow[h]] # "unused" /\ ToIdle(h)
      <4>1. \A i \in Handlers :
              at'[i] = "exchange" => at[i] = "exchange" /\ flow'[i] = flow[i]
        BY <3>2 DEF ToIdle
      <4> QED BY <3>1, <3>2, <4>1
    <3>3. CASE /\ nonce[flow[h]] = "unused" /\ Goto(h, "exchange")
               /\ UNCHANGED flow
      <4>1. \A i \in Handlers : at[i] = "exchange" => flow[i] # flow[h]
        BY <3>3
      <4>2. \A i \in Handlers : at'[i] = "exchange" => i = h \/ at[i] = "exchange"
        BY <3>3
      <4>3. redeemed[flow[h]] = 0
        BY <3>1, <3>3
      <4>4. \A i \in Handlers : at[i] = "exchange" => flow[i] \in Flows
        OBVIOUS
      <4> QED BY <3>1, <3>3, <4>1, <4>2, <4>3, <4>4
    <3> QED BY <2>1, <3>2, <3>3 DEF ConsumeState
  <2>2. ASSUME NEW g \in Grants, AskGoogle(h, g)
        PROVE  AtMostOneBuyer' /\ StateUsedOnce'
    <3>1. /\ at[h] = "exchange" /\ flow[h] \in Flows /\ UNCHANGED <<nonce, flow>>
          /\ nonce[flow[h]] = "gone" /\ redeemed[flow[h]] = 0
      BY <2>2 DEF AskGoogle, stateVars
    <3>2. \A f \in Flows : redeemed'[f] = IF f = flow[h] THEN 1 ELSE redeemed[f]
      BY <2>2, <3>1 DEF AskGoogle
    <3>3. \A i \in Handlers :
            at'[i] = "exchange" => at[i] = "exchange" /\ flow[i] # flow[h]
      BY <2>2, <3>1 DEF AskGoogle
    <3> QED BY <3>1, <3>2, <3>3
  <2>3. CASE ~ConsumeState(h) /\ \A g \in Grants : ~AskGoogle(h, g)
    <3>1. UNCHANGED redeemed /\ UNCHANGED nonce
      BY <1>6, <2>3 DEF google_oauth_callback, FindConnection, InsertConnection,
         FindCredential, FindAccount, Commit, stateVars
    <3>2. \A i \in Handlers :
            at'[i] = "exchange" => at[i] = "exchange" /\ flow'[i] = flow[i]
      BY <1>6, <2>3 DEF google_oauth_callback, FindConnection, InsertConnection,
         FindCredential, FindAccount, Commit, ToIdle
    <3> QED BY <1>1, <3>1, <3>2
  <2> QED BY <2>1, <2>2, <2>3
<1>7. ASSUME NEW h \in Handlers, Fail(h) PROVE AtMostOneBuyer' /\ StateUsedOnce'
  BY <1>5, <1>7 DEF Fail, stateVars
<1>8. CASE UNCHANGED callbackVars
  BY <1>1, <1>8 DEF callbackVars
<1> QED BY <1>2, <1>3, <1>4, <1>6, <1>7, <1>8, ReadersWriteNothing
-----------------------------------------------------------------------------
(* The rows                                                                *)

\* The tokens of a row c were issued to c's user in a flow of c's organization.
Issued(c, row) ==
  \A t \in {row.access, row.refresh} \ {None} :
    nonce[t.flow] # "none" /\ owner[t.flow] = c[1] /\ t.user = c[2]

TokensIssued ==
  \A c \in Connections :
    /\ connection[c] = None <=> credential[c] = None
    /\ credential[c] # None => Issued(c, credential[c])

LEMMA TokensIssuedStep ==
  ASSUME TypeOK, ReadStays, TokensIssued, [Next]_vars
  PROVE  TokensIssued'
<1> USE NoneAssumption
<1>1. ASSUME NEW c \in Connections, NEW row \in Credentials, Issued(c, row)
      PROVE  Issued(c, row)'
  <2>1. \A t \in {row.access, row.refresh} \ {None} : t.flow \in Flows
    BY DEF Credentials, Tokens
  <2> QED BY <1>1, <2>1, OwnerStays DEF Issued
<1>2. SUFFICES ASSUME NEW c \in Connections
               PROVE  /\ connection'[c] = None <=> credential'[c] = None
                      /\ \A row \in Credentials : credential'[c] = row => Issued(c, row)'
  <2>1. ASSUME NEW c \in Connections, credential'[c] # None
        PROVE  credential'[c] \in Credentials
    BY <2>1, TypeOKStep DEF TypeOK
  <2> QED BY <2>1 DEF TokensIssued, Issued
<1>3. CASE UNCHANGED <<connection[c], credential[c]>>
  BY <1>1, <1>3 DEF TokensIssued
<1>4. ASSUME NEW h \in Handlers, Commit(h), dbVars' # dbVars, c = Connection(h)
      PROVE  /\ connection'[c] = None <=> credential'[c] = None
             /\ \A row \in Credentials : credential'[c] = row => Issued(c, row)'
  <2>1. /\ at[h] = "commit" /\ connection'[c] = NewStatus(h)
        /\ credential'[c] = NewCredential(h)
        /\ NewStatus(h) \in Statuses /\ NewCredential(h) \in Credentials
    BY <1>4, CommitWrites
  <2>2. held[h] # None => credential[c] # None
    BY <2>1, <1>4 DEF ReadStays
  <2>3. /\ flow[h] \in Flows /\ nonce[flow[h]] # "none"
        /\ c[1] = Owner(h) /\ c[2] = grant[h].user
        /\ Token(h).flow = flow[h] /\ Token(h).user = grant[h].user
    BY <1>4, <2>1, InHand
  <2>4. nonce[Token(h).flow] # "none" /\ owner[Token(h).flow] = c[1] /\ Token(h).user = c[2]
    BY <2>3 DEF Owner
  <2>5. /\ NewCredential(h).access = Token(h)
        /\ \/ NewCredential(h).refresh \in {Token(h), None}
           \/ credential[c] # None /\ NewCredential(h).refresh = credential[c].refresh
    BY <1>4, <2>2 DEF NewCredential
  <2>6. Issued(c, NewCredential(h))
    <3>1. CASE NewCredential(h).refresh \in {Token(h), None}
      BY <2>4, <2>5, <3>1 DEF Issued
    <3>2. CASE credential[c] # None /\ NewCredential(h).refresh = credential[c].refresh
      <4>1. Issued(c, credential[c]) BY <3>2 DEF TokensIssued
      <4> QED BY <2>4, <2>5, <3>2, <4>1 DEF Issued
    <3> QED BY <2>5, <3>1, <3>2
  <2>7. ASSUME NEW row \in Credentials, credential'[c] = row PROVE Issued(c, row)'
    BY <1>1, <2>1, <2>6, <2>7
  <2>8. connection'[c] # None /\ credential'[c] # None
    BY <2>1 DEF Statuses
  <2> QED BY <2>7, <2>8
<1>5. ASSUME NEW h \in Handlers, Commit(h), dbVars' # dbVars, c # Connection(h)
      PROVE  UNCHANGED <<connection[c], credential[c]>>
  BY <1>5, CommitWrites
<1>6. UNCHANGED dbVars => UNCHANGED <<connection[c], credential[c]>>
  BY DEF dbVars
<1> QED BY <1>3, <1>4, <1>5, <1>6, OthersRead

\* A stored account is attached to a stored connection of its organization.
AccountsAttached ==
  \A a \in Accounts :
    account[a] # None =>
      /\ account[a].connection[1] = account[a].organization
      /\ connection[account[a].connection] # None

LEMMA AccountsAttachedStep ==
  ASSUME TypeOK, ReadStays, AccountsAttached, [Next]_vars
  PROVE  AccountsAttached'
<1> USE NoneAssumption
<1>1. RowsStay BY RowsStayStep
<1> SUFFICES ASSUME NEW a \in Accounts, account'[a] # None
             PROVE  /\ account'[a].connection[1] = account'[a].organization
                    /\ connection'[account'[a].connection] # None
  BY DEF AccountsAttached
<1>2. CASE UNCHANGED account[a]
  <2>1. account[a].connection \in Connections
    BY <1>2 DEF TypeOK, AccountRows
  <2> QED BY <1>1, <1>2, <2>1 DEF AccountsAttached, RowsStay
<1>3. ASSUME NEW h \in Handlers, Commit(h), dbVars' # dbVars, a \in Saved(h)
      PROVE  /\ account'[a].connection[1] = account'[a].organization
             /\ connection'[account'[a].connection] # None
  <2>1. /\ at[h] = "commit" /\ account'[a] = NewAccount(h, a)
        /\ connection'[Connection(h)] # None
        /\ Connection(h) \in Connections /\ Connection(h)[1] = Owner(h)
    BY <1>3, CommitWrites, InHand DEF Statuses
  <2>2. CASE seen[h][a] = None
    BY <2>1, <2>2 DEF NewAccount
  <2>3. CASE seen[h][a] # None
    <3>1. account[a] # None /\ account[a].organization = Owner(h)
      BY <1>3, <2>3 DEF ReadStays, Saved
    <3>2. account[a] \in AccountRows
      BY <3>1 DEF TypeOK
    <3>3. /\ account'[a].organization = Owner(h)
          /\ account'[a].connection \in {account[a].connection, Connection(h)}
      BY <2>1, <2>3, <3>1, <3>2 DEF NewAccount, Assigned, AccountRows
    <3>4. /\ account[a].connection \in Connections
          /\ account[a].connection[1] = Owner(h)
          /\ connection[account[a].connection] # None
      BY <3>1, <3>2 DEF AccountsAttached, AccountRows
    <3> QED BY <1>1, <2>1, <3>3, <3>4 DEF RowsStay
  <2> QED BY <2>2, <2>3
<1>4. ASSUME NEW h \in Handlers, Commit(h), dbVars' # dbVars, a \notin Saved(h)
      PROVE  UNCHANGED account[a]
  BY <1>4, CommitWrites
<1>5. UNCHANGED dbVars => UNCHANGED account[a]
  BY DEF dbVars
<1> QED BY <1>2, <1>3, <1>4, <1>5, OthersRead

\* What a status request found is still so when it asks again: its connections are
\* those of every account that was attached then.
ReaderKnows ==
  reader # None =>
    \A x \in reader.attached :
      /\ x[1] \in Accounts /\ account[x[1]] # None
      /\ account[x[1]].organization = reader.organization
      /\ x[2] \in reader.connections

LEMMA ReaderKnowsStep ==
  ASSUME TypeOK, ReadStays, AccountsAttached, ReaderKnows, [Next]_vars
  PROVE  ReaderKnows'
<1>1. RowsStay BY RowsStayStep
<1>2. CASE UNCHANGED reader
  BY <1>1, <1>2 DEF ReaderKnows, RowsStay
<1>3. ASSUME NEW o \in Organizations, StatusFindsConnections(o) PROVE ReaderKnows'
  <2>1. \A a \in AccountsOf(o) :
          /\ a \in Accounts /\ account[a] # None /\ account[a].organization = o
          /\ account[a].connection \in {c \in Connections : c[1] = o /\ connection[c] # None}
    BY DEF TypeOK, AccountRows, AccountsOf, AccountsAttached
  <2>2. /\ reader' = [organization |-> o,
                     connections |-> {c \in Connections : c[1] = o /\ connection[c] # None},
                     attached |-> {<<a, account[a].connection>> : a \in AccountsOf(o)}]
        /\ account' = account
    BY <1>3 DEF StatusFindsConnections, callbackVars
  <2> QED BY <2>1, <2>2 DEF ReaderKnows
<1>4. CASE StatusAnswers
  BY <1>4 DEF StatusAnswers, ReaderKnows
<1>5. ASSUME \A o \in Organizations : ~StatusFindsConnections(o), ~StatusAnswers
      PROVE  UNCHANGED reader
  BY <1>5 DEF Next, vars, StartOAuth, Expire, Callback, google_oauth_callback,
     ConsumeState, AskGoogle, FindConnection, InsertConnection, FindCredential,
     FindAccount, Commit, Fail
<1> QED BY <1>2, <1>3, <1>4, <1>5

LEMMA ReadyNeedsAccountStep ==
  ASSUME TypeOK, ReadStays, ReadyNeedsAccount, [Next]_vars
  PROVE  ReadyNeedsAccount'
<1> USE NoneAssumption
<1>1. RowsStay BY RowsStayStep
<1>2. CASE \E c \in Connections : connection[c] = "connected"
  BY <1>1, <1>2 DEF ReadyNeedsAccount, Ready, RowsStay
<1>3. CASE ~\E c \in Connections : connection[c] = "connected"
  <2> SUFFICES ASSUME NEW c \in Connections, connection'[c] = "connected"
               PROVE  \E a \in Accounts : account'[a] # None
    BY DEF ReadyNeedsAccount, Ready
  <2>1. PICK h \in Handlers : Commit(h) /\ dbVars' # dbVars /\ c = Connection(h)
    BY <1>3, OthersRead, CommitWrites DEF dbVars
  <2>2. /\ at[h] = "commit" /\ NewStatus(h) = "connected" /\ grant[h] \in Grants
        /\ \A a \in Accounts :
             account'[a] = IF a \in Saved(h) THEN NewAccount(h, a) ELSE account[a]
        /\ \A a \in Accounts : NewAccount(h, a) \in AccountRows
    BY <2>1, CommitWrites, InHand
  <2>3. grant[h].accounts # {} /\ grant[h].accounts \subseteq Accounts
    BY <1>3, <2>1, <2>2 DEF NewStatus, Assigned, Grants
  <2>4. PICK a \in grant[h].accounts : TRUE
    BY <2>3
  <2>5. a \in Accounts BY <2>3, <2>4
  <2>6. CASE a \in Saved(h)
    BY <2>2, <2>5, <2>6
  <2>7. CASE a \notin Saved(h)
    <3>1. seen[h][a] # None BY <2>4, <2>7 DEF Saved
    <3>2. account[a] # None BY <2>5, <3>1 DEF ReadStays
    <3> QED BY <1>1, <2>5, <3>2 DEF RowsStay
  <2> QED BY <2>6, <2>7
<1> QED BY <1>2, <1>3
-----------------------------------------------------------------------------
(* Theorems                                                                *)

Inv ==
  /\ TypeOK /\ ReadStays
  /\ AtMostOneBuyer /\ StateUsedOnce
  /\ TokensIssued /\ AccountsAttached /\ ReaderKnows /\ ReadyNeedsAccount

LEMMA Initially == Init => Inv
<1> SUFFICES ASSUME Init PROVE Inv
  OBVIOUS
<1> USE NoneAssumption DEF Init
<1>1. TypeOK BY DEF TypeOK, Points, Unseen
<1>2. ReadStays BY DEF ReadStays, Unseen
<1>3. AtMostOneBuyer /\ StateUsedOnce BY DEF AtMostOneBuyer, StateUsedOnce
<1>4. TokensIssued /\ AccountsAttached /\ ReaderKnows
  BY DEF TokensIssued, AccountsAttached, ReaderKnows
<1>5. ReadyNeedsAccount BY DEF ReadyNeedsAccount, Ready
<1> QED BY <1>1, <1>2, <1>3, <1>4, <1>5 DEF Inv

LEMMA Inductive == Inv /\ [Next]_vars => Inv'
<1> SUFFICES ASSUME Inv, [Next]_vars PROVE Inv'
  OBVIOUS
<1>1. TypeOK' BY TypeOKStep DEF Inv
<1>2. ReadStays' BY ReadStaysStep DEF Inv
<1>3. AtMostOneBuyer' /\ StateUsedOnce' BY AtMostOneBuyerStep DEF Inv
<1>4. TokensIssued' BY TokensIssuedStep DEF Inv
<1>5. AccountsAttached' BY AccountsAttachedStep DEF Inv
<1>6. ReadyNeedsAccount' BY ReadyNeedsAccountStep DEF Inv
<1>7. ReaderKnows' BY ReaderKnowsStep DEF Inv
<1> QED BY <1>1, <1>2, <1>3, <1>4, <1>5, <1>6, <1>7 DEF Inv

LEMMA Always == Spec => []Inv
BY Initially, Inductive, PTL DEF Spec

\* Every variable has its type, and a callback past the state knows its flow and
\* its grant.
THEOREM TypeCorrect == Spec => []TypeOK
<1>1. Inv => TypeOK BY DEF Inv
<1> QED BY <1>1, Always, PTL

\* However often and however concurrently the callback of a state is delivered,
\* its code is exchanged at most once.
THEOREM StateOnce == Spec => []StateUsedOnce
<1>1. Inv => StateUsedOnce BY DEF Inv
<1> QED BY <1>1, Always, PTL

\* A connection has tokens from its first commit on, all issued to its user in
\* authorizations of its organization.
THEOREM TokensOwned == Spec => []TokensOfTheirUser
<1>1. Inv => TokensOfTheirUser
  BY DEF Inv, TokensIssued, Issued, TokensOfTheirUser
<1> QED BY <1>1, Always, PTL

\* The status of an organization leaves out no account that keeps its connection
\* between the two queries, whatever commits between them.
THEOREM AccountsListed == Spec => []EveryAccountListed
<1>1. Inv => EveryAccountListed
  BY DEF Inv, ReaderKnows, EveryAccountListed, ListedAccounts, AccountsOf
<1> QED BY <1>1, Always, PTL

\* Automation is never ready without a stored account.
THEOREM ReadyHasAccount == Spec => []ReadyNeedsAccount
<1>1. Inv => ReadyNeedsAccount BY DEF Inv
<1> QED BY <1>1, Always, PTL

\* No step loses a refresh token, a credential or an account, and none moves an
\* account to another organization.
THEOREM NothingTakenAway == Spec => NothingIsTakenAway
<1>1. Inv /\ [Next]_vars =>
        [/\ \A c \in Connections :
              credential[c] # None /\ credential[c].refresh # None
                => credential'[c] # None /\ credential'[c].refresh # None
         /\ \A a \in Accounts :
              account[a] # None
                => /\ account'[a] # None
                   /\ account'[a].organization = account[a].organization]_vars
  <2> SUFFICES ASSUME Inv, [Next]_vars PROVE RowsStay
    BY DEF RowsStay
  <2> QED BY RowsStayStep DEF Inv
<1> QED BY <1>1, Always, PTL DEF NothingIsTakenAway, Spec
=============================================================================
