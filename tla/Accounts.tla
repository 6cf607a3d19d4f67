------------------------------ MODULE Accounts ------------------------------
(***************************************************************************)
(* Users, their deposit addresses and their documents: register,           *)
(* changeEmail and upload of AuthController, getAddress of                 *)
(* WalletController.  All of them look whether something is in a table and *)
(* write it some awaits later; no table has a unique key but its id.       *)
(***************************************************************************)
EXTENDS Naturals, Sequences

CONSTANTS
  Requests,  \* each one does one thing, and is the id of what it inserts
  Emails,
  Phones,
  NoPhone,   \* a registration without a phone number
  Networks

VARIABLES
  post,        \* what each request asks for
  req,         \* where it is
  users,       \* tbl_users; by is the request that wrote the e-mail last
  wallets,     \* tbl_wallet, by id
  identities,  \* tbl_identity
  met          \* history: requests that ran at the same time

vars == <<post, req, users, wallets, identities, met>>
tables == <<users, wallets, identities>>

Posts ==
  [kind: {"register"}, email: Emails, phone: Phones \cup {NoPhone}]
    \cup [kind: {"changeEmail"}, user: Requests, email: Emails]
    \cup [kind: {"getAddress"}, user: Requests, network: Networks]
    \cup [kind: {"upload"}, user: Requests]

Steps == {"idle", "checking", "searching", "inserting", "updating", "success", "refused", "failed"}
Running == {r \in Requests : req[r].pc \in {"checking", "searching", "inserting", "updating"}}

Init ==
  /\ post \in [Requests -> Posts]
  /\ req = [r \in Requests |-> [pc |-> "idle", reads |-> {}, taken |-> FALSE, address |-> "none"]]
  /\ users = {}
  /\ wallets = <<>>
  /\ identities = {}
  /\ met = [r \in Requests |-> {}]

Kind(r) == post[r].kind
Goes(r, pc) == req' = [req EXCEPT ![r].pc = pc]

\* Many requests may run; history remembers which of them do.
Begins(r, pc, reads) ==
  /\ req[r].pc = "idle"
  /\ req' = [req EXCEPT ![r].pc = pc, ![r].reads = reads]
  /\ met' = [q \in Requests |-> IF q = r THEN Running ELSE IF q \in Running THEN met[q] \cup {r} ELSE met[q]]
  /\ UNCHANGED <<post, tables>>

\* A statement was executed; its answer may be lost.
Written(r) == (\E pc \in {"success", "failed"} : Goes(r, pc)) /\ UNCHANGED <<post, met>>
-----------------------------------------------------------------------------
(* register and changeEmail.                                               *)

Register(r) == Kind(r) = "register" /\ Begins(r, "checking", {"email", "phone"})

\* The user is logged in, and users are never deleted.
ChangeEmail(r) ==
  /\ Kind(r) = "changeEmail"
  /\ \E u \in users : u.id = post[r].user
  /\ Begins(r, "checking", {"email"})

\* One of the queries of Promise.all is answered; after the last the handler goes on.
Read(r, column, taken) ==
  /\ req[r].pc = "checking" /\ column \in req[r].reads
  /\ LET reads == req[r].reads \ {column}
         refuse == req[r].taken \/ taken
     IN  req' = [req EXCEPT ![r].reads = reads, ![r].taken = refuse,
                            ![r].pc = IF reads # {} THEN "checking"
                                      ELSE IF refuse THEN "refused"
                                      ELSE IF Kind(r) = "register" THEN "inserting" ELSE "updating"]
  /\ UNCHANGED <<post, tables, met>>

\* Slip: only register asks whether the e-mail is taken.
CheckEmailOnRegister(r) ==
  Read(r, "email", Kind(r) = "register" /\ \E u \in users : u.email = post[r].email)

CheckEmail(r) == Read(r, "email", \E u \in users : u.email = post[r].email)

\* A condition on undefined is none: without a phone number any user is found.
CheckPhone(r) == Read(r, "phone", \E u \in users : post[r].phone = NoPhone \/ u.phone = post[r].phone)

\* save() inserts: the body of a sign-up has the fields of the DTO, and no id.
InsertUser(r) ==
  /\ Kind(r) = "register" /\ req[r].pc = "inserting"
  /\ users' = users \cup {[id |-> r, email |-> post[r].email, phone |-> post[r].phone, by |-> r]}
  /\ Written(r)
  /\ UNCHANGED <<wallets, identities>>

UpdateEmail(r) ==
  /\ Kind(r) = "changeEmail" /\ req[r].pc = "updating"
  /\ users' = {IF u.id = post[r].user THEN [u EXCEPT !.email = post[r].email, !.by = r] ELSE u : u \in users}
  /\ Written(r)
  /\ UNCHANGED <<wallets, identities>>
-----------------------------------------------------------------------------
(* getAddress.                                                             *)

GetAddress(r) == Kind(r) = "getAddress" /\ Begins(r, "searching", {})

Matches(user, network) == {i \in 1 .. Len(wallets) : wallets[i].user = user /\ wallets[i].network = network}

\* Slip: the latest wallet.
LastAddress(user, network) ==
  wallets[CHOOSE i \in Matches(user, network) : \A k \in Matches(user, network) : i >= k].address

\* searchAddress, which withdrawals use as well: the first of the rows found.  The
\* query asks for no order; that the table is read in the order of the ids, as MySQL
\* does without an index on the two columns, is assumed.
Address(user, network) ==
  wallets[CHOOSE i \in Matches(user, network) : \A k \in Matches(user, network) : i <= k].address

\* Slip: a user without a wallet is answered, too.
SearchAddressNull(r) ==
  /\ Kind(r) = "getAddress" /\ req[r].pc = "searching"
  /\ req' = [req EXCEPT ![r].pc = "success",
                        ![r].address = IF Matches(post[r].user, post[r].network) = {}
                                       THEN "null" ELSE Address(post[r].user, post[r].network)]
  /\ UNCHANGED <<post, tables, met>>

SearchAddress(r) ==
  /\ Kind(r) = "getAddress" /\ req[r].pc = "searching"
  /\ IF Matches(post[r].user, post[r].network) = {}
     THEN Goes(r, "inserting")
     ELSE req' = [req EXCEPT ![r].pc = "success", ![r].address = Address(post[r].user, post[r].network)]
  /\ UNCHANGED <<post, tables, met>>

\* The answer has the new address, whether or not it is the one that is found later.
SaveAddress(r) ==
  /\ Kind(r) = "getAddress" /\ req[r].pc = "inserting"
  /\ wallets' = Append(wallets, [user |-> post[r].user, network |-> post[r].network, address |-> r])
  /\ \/ req' = [req EXCEPT ![r].pc = "success", ![r].address = r]
     \/ Goes(r, "failed")
  /\ UNCHANGED <<post, users, identities, met>>
-----------------------------------------------------------------------------
(* upload.                                                                 *)

\* The query for the user always finds one.
Upload(r) ==
  /\ Kind(r) = "upload"
  /\ \E u \in users : u.id = post[r].user
  /\ Begins(r, "searching", {})

\* Slip: what is there is not looked for.
FindNoIdentity(r) ==
  /\ Kind(r) = "upload" /\ req[r].pc = "searching"
  /\ Goes(r, "inserting")
  /\ UNCHANGED <<post, tables, met>>

FindIdentity(r) ==
  /\ Kind(r) = "upload" /\ req[r].pc = "searching"
  /\ Goes(r, IF \E i \in identities : i.user = post[r].user THEN "updating" ELSE "inserting")
  /\ UNCHANGED <<post, tables, met>>

InsertIdentity(r) ==
  /\ Kind(r) = "upload" /\ req[r].pc = "inserting"
  /\ identities' = identities \cup {[user |-> post[r].user, id |-> r]}
  /\ Written(r)
  /\ UNCHANGED <<users, wallets>>

\* Which documents a row has is not told apart.
UpdateIdentity(r) ==
  /\ Kind(r) = "upload" /\ req[r].pc = "updating"
  /\ Written(r)
  /\ UNCHANGED tables

\* A statement fails.
Fail(r) ==
  /\ r \in Running
  /\ Goes(r, "failed")
  /\ UNCHANGED <<post, tables, met>>

Next ==
  \E r \in Requests :
    \/ Register(r) \/ ChangeEmail(r) \/ GetAddress(r) \/ Upload(r)
    \/ CheckEmail(r) \/ CheckPhone(r) \/ InsertUser(r) \/ UpdateEmail(r)
    \/ SearchAddress(r) \/ SaveAddress(r)
    \/ FindIdentity(r) \/ InsertIdentity(r) \/ UpdateIdentity(r)
    \/ Fail(r)

Spec == Init /\ [][Next]_vars
-----------------------------------------------------------------------------
(* Properties.                                                             *)

\* The variables have the types the code and the tables give them.
TypeOK ==
  /\ post \in [Requests -> Posts]
  /\ req \in [Requests -> [pc: Steps, reads: SUBSET {"email", "phone"}, taken: BOOLEAN,
                           address: Requests \cup {"none"}]]
  /\ users \subseteq [id: Requests, email: Emails, phone: Phones \cup {NoPhone}, by: Requests]
  /\ wallets \in Seq([user: Requests, network: Networks, address: Requests])
  /\ identities \subseteq [user: Requests, id: Requests]
  /\ met \in [Requests -> SUBSET Requests]

\* Only requests that run at the same time give two users one e-mail or one phone
\* number: an e-mail that is taken is refused, by register and by changeEmail,
\* whatever was changed to it or from it before.
UsersDistinct ==
  \A u, v \in users : u # v =>
    /\ u.email = v.email => u.by \in met[v.by]
    /\ u.phone = v.phone /\ u.phone # NoPhone => u.id \in met[v.id]

\* Only requests that run at the same time give a user a second deposit address on
\* a network or a second row of documents.
RowsDistinct ==
  /\ \A i, k \in DOMAIN wallets :
       i # k /\ wallets[i].user = wallets[k].user /\ wallets[i].network = wallets[k].network
         => wallets[i].address \in met[wallets[k].address]
  /\ \A i, k \in identities : i # k /\ i.user = k.user => i.id \in met[k.id]

\* The address a client was told to deposit to is the one that withdrawals look at
\* ever after, except for a new one that was made while another was made.
AddressIsKept ==
  \A r \in Requests : Kind(r) = "getAddress" /\ req[r].pc = "success" =>
    LET address == Address(post[r].user, post[r].network)
    IN  req[r].address = address \/ (req[r].address = r /\ address \in met[r])
=============================================================================
