-------------------------- MODULE AccountsProofs ---------------------------
(***************************************************************************)
(* Proofs, for any number of requests, that two rows share an e-mail, a    *)
(* phone number, a deposit address' user and network, or a user's          *)
(* documents only when the requests that wrote them ran at the same time.  *)
(***************************************************************************)
EXTENDS Accounts, WellFoundedInduction, TLAPS

\* A column was looked at and was not taken.
Asks(r) == Kind(r) \in {"register", "changeEmail"} /\ req[r].pc \in {"checking", "inserting", "updating"}
EmailFree(r) == Asks(r) /\ "email" \notin req[r].reads /\ ~req[r].taken
PhoneFree(r) == Asks(r) /\ Kind(r) = "register" /\ "phone" \notin req[r].reads /\ ~req[r].taken

Same(i, r) == wallets[i].user = post[r].user /\ wallets[i].network = post[r].network
IsFirst(i, r) == i \in DOMAIN wallets /\ Same(i, r) /\ \A k \in DOMAIN wallets : Same(k, r) => i <= k

\* Who wrote since the request looked was running with it.
LooksOK(r) ==
  /\ EmailFree(r) => \A u \in users : u.email = post[r].email => u.by \in met[r]
  /\ PhoneFree(r) => \A u \in users : u.phone = post[r].phone /\ u.phone # NoPhone => u.id \in met[r]
  /\ Kind(r) = "getAddress" /\ req[r].pc = "inserting"
       => \A i \in DOMAIN wallets : Same(i, r) => wallets[i].address \in met[r]
  /\ Kind(r) = "upload" /\ req[r].pc = "inserting"
       => \A i \in identities : i.user = post[r].user => i.id \in met[r]

AnswerOK(r) ==
  Kind(r) = "getAddress" /\ req[r].pc = "success" =>
    \E i \in DOMAIN wallets :
      IsFirst(i, r) /\ (req[r].address = wallets[i].address
                        \/ (req[r].address = r /\ wallets[i].address \in met[r]))

RequestOK(r) ==
  /\ req[r].pc = "idle" => met[r] = {}
  /\ Asks(r) /\ req[r].pc # "checking" => req[r].reads = {} /\ ~req[r].taken
  /\ LooksOK(r)
  /\ AnswerOK(r)

\* Requests that run at the same time know each other, and keep doing so.
MetOK ==
  \A q, r \in Requests : /\ q \in met[r] <=> r \in met[q]
                         /\ q \in Running /\ r \in Running /\ q # r => q \in met[r]

UsersOK ==
  /\ \A u, v \in users : u.id = v.id => u = v
  /\ \A u \in users : req[u.id].pc \in {"success", "failed"}

IInv ==
  /\ TypeOK
  /\ UsersDistinct
  /\ RowsDistinct
  /\ UsersOK
  /\ MetOK
  /\ \A r \in Requests : RequestOK(r)

ReqType == [Requests -> [pc: Steps, reads: SUBSET {"email", "phone"}, taken: BOOLEAN,
                         address: Requests \cup {"none"}]]
-----------------------------------------------------------------------------
(* What steps have in common.                                              *)

LEMMA PostFacts ==
  ASSUME TypeOK, NEW r \in Requests
  PROVE  /\ Kind(r) \in {"register", "changeEmail", "getAddress", "upload"}
         /\ Kind(r) = "register" => post[r].email \in Emails /\ post[r].phone \in Phones \cup {NoPhone}
         /\ Kind(r) = "changeEmail" => post[r].user \in Requests /\ post[r].email \in Emails
         /\ Kind(r) = "getAddress" => post[r].user \in Requests /\ post[r].network \in Networks
         /\ Kind(r) = "upload" => post[r].user \in Requests
<1>1. post[r] \in Posts
  BY DEF TypeOK
<1> QED BY <1>1 DEF Posts, Kind

LEMMA WalletFacts ==
  ASSUME TypeOK
  PROVE  /\ Len(wallets) \in Nat /\ DOMAIN wallets = 1 .. Len(wallets)
         /\ \A i \in DOMAIN wallets : wallets[i] \in [user: Requests, network: Networks, address: Requests]
         /\ \A i \in DOMAIN wallets : wallets[i].address \in Requests
<1> DEFINE Wallet == [user: Requests, network: Networks, address: Requests]
<1>1. wallets \in Seq(Wallet)
  BY DEF TypeOK
<1> HIDE DEF Wallet
<1>2. /\ Len(wallets) \in Nat /\ DOMAIN wallets = 1 .. Len(wallets)
      /\ \A i \in DOMAIN wallets : wallets[i] \in Wallet
  BY <1>1
<1>3. \A i \in DOMAIN wallets : wallets[i].address \in Requests
  BY <1>2 DEF Wallet
<1> QED BY <1>2, <1>3 DEF Wallet

LEMMA InitOK == Init => IInv
<1> SUFFICES ASSUME Init PROVE IInv
  OBVIOUS
<1>1. TypeOK
  BY DEF Init, TypeOK, Steps
<1>2. UsersDistinct /\ RowsDistinct /\ UsersOK
  BY DEF Init, UsersDistinct, RowsDistinct, UsersOK
<1>3. MetOK
  BY DEF Init, MetOK, Running
<1>4. \A r \in Requests : RequestOK(r)
  BY DEF Init, RequestOK, Asks, LooksOK, EmailFree, PhoneFree, AnswerOK
<1> QED BY <1>1, <1>2, <1>3, <1>4 DEF IInv

\* A request that runs goes on; who runs then ran before.
LEMMA MetStays ==
  ASSUME IInv, NEW r \in Requests, r \in Running, req' \in ReqType, UNCHANGED met,
         \A q \in Requests \ {r} : req'[q] = req[q]
  PROVE  MetOK' /\ Running' \subseteq Running
  BY DEF IInv, MetOK, Running

\* A step that writes no table concerns its request alone.
LEMMA ReadStep ==
  ASSUME IInv, NEW r \in Requests, r \in Running, req' \in ReqType, UNCHANGED <<post, tables, met>>,
         \A q \in Requests \ {r} : req'[q] = req[q],
         req'[r].pc # "idle", RequestOK(r)'
  PROVE  IInv'
<1>1. TypeOK' /\ UsersDistinct' /\ RowsDistinct'
  BY DEF IInv, TypeOK, UsersDistinct, RowsDistinct, tables, ReqType
<1>2. UsersOK'
  <2>1. \A u \in users : u.id \in Requests \ {r}
    BY DEF IInv, UsersOK, TypeOK, Running
  <2> QED BY <2>1 DEF IInv, UsersOK, tables
<1>3. MetOK'
  BY MetStays
<1>4. ASSUME NEW q \in Requests \ {r}
      PROVE  RequestOK(q)'
  BY DEF IInv, RequestOK, Asks, LooksOK, EmailFree, PhoneFree, AnswerOK, IsFirst, Same, Kind, tables
<1> QED BY <1>1, <1>2, <1>3, <1>4 DEF IInv

\* A request ends with a statement.
LEMMA EndFacts ==
  ASSUME IInv, NEW r \in Requests, r \in Running, NEW pc \in {"success", "failed"}, Goes(r, pc)
  PROVE  /\ req' \in ReqType /\ req'[r].pc = pc
         /\ \A q \in Requests \ {r} : req'[q] = req[q]
  BY DEF IInv, TypeOK, Goes, ReqType, Steps
-----------------------------------------------------------------------------
(* The steps.                                                              *)

LEMMA BeginStep ==
  ASSUME IInv, NEW r \in Requests, NEW pc \in {"checking", "searching"}, NEW reads \in SUBSET {"email", "phone"},
         Begins(r, pc, reads),
         Kind(r) \in {"register", "changeEmail"} => "email" \in reads,
         Kind(r) = "register" => "phone" \in reads
  PROVE  IInv'
<1>1. /\ req' \in ReqType /\ req'[r].pc = pc /\ req'[r].reads = reads
      /\ \A q \in Requests \ {r} : req'[q] = req[q]
  <2>1. req \in ReqType
    BY DEF IInv, TypeOK, ReqType
  <2>2. req' = [req EXCEPT ![r] = [@ EXCEPT !.pc = pc, !.reads = reads]]
    BY DEF Begins
  <2>3. [req[r] EXCEPT !.pc = pc, !.reads = reads]
          \in [pc: Steps, reads: SUBSET {"email", "phone"}, taken: BOOLEAN, address: Requests \cup {"none"}]
    BY <2>1 DEF ReqType, Steps
  <2> QED BY <2>1, <2>2, <2>3 DEF ReqType
<1>2. /\ met' \in [Requests -> SUBSET Requests] /\ met[r] = {} /\ met'[r] = Running
      /\ \A q \in Requests \ {r} : met'[q] = IF q \in Running THEN met[q] \cup {r} ELSE met[q]
  BY DEF Begins, IInv, TypeOK, RequestOK, Running
<1>3. \A q \in Requests : met[q] \subseteq met'[q]
  BY <1>2
<1>4. UNCHANGED <<post, tables>> /\ r \notin Running /\ req[r].pc = "idle"
  BY DEF Begins, Running
<1>5. TypeOK'
  BY <1>1, <1>2, <1>4 DEF IInv, TypeOK, tables, ReqType
<1>6. UsersDistinct' /\ RowsDistinct'
  <2>1. UNCHANGED <<users, wallets, identities>>
    BY <1>4 DEF tables
  <2>2. /\ \A u \in users : u.by \in Requests /\ u.id \in Requests
        /\ \A i \in DOMAIN wallets : wallets[i].address \in Requests
        /\ \A i \in identities : i.id \in Requests
    BY WalletFacts DEF IInv, TypeOK
  <2>3. UsersDistinct'
    BY <1>3, <2>1, <2>2 DEF IInv, UsersDistinct
  <2>4. RowsDistinct'
    BY <1>3, <2>1, <2>2 DEF IInv, RowsDistinct
  <2> QED BY <2>3, <2>4
<1>7. UsersOK'
  <2>1. \A u \in users : u.id \in Requests \ {r}
    BY <1>4 DEF IInv, UsersOK, TypeOK
  <2> QED BY <1>1, <1>4, <2>1 DEF IInv, UsersOK, tables
<1>8. MetOK'
  <2>1. Running' = Running \cup {r}
    BY <1>1, <1>4 DEF Running
  <2>2. \A q \in Requests : r \notin met[q]
    BY <1>2 DEF IInv, MetOK
  <2> QED BY <1>2, <1>4, <2>1, <2>2 DEF IInv, MetOK
<1>9. RequestOK(r)'
  BY <1>1, <1>4, PostFacts DEF IInv, RequestOK, Asks, LooksOK, EmailFree, PhoneFree, AnswerOK, Kind
<1>10. ASSUME NEW q \in Requests \ {r}
       PROVE  RequestOK(q)'
  <2>1. RequestOK(q)
    BY DEF IInv
  <2>2. (req[q].pc = "idle" => met[q] = {})' /\ (Asks(q) /\ req[q].pc # "checking" => req[q].reads = {} /\ ~req[q].taken)'
    BY <1>1, <1>2, <1>4, <2>1 DEF RequestOK, Asks, Kind, Running
  <2>3. LooksOK(q)'
    BY <1>1, <1>3, <1>4, <2>1 DEF RequestOK, LooksOK, Asks, EmailFree, PhoneFree, Same, Kind, tables
  <2>4. AnswerOK(q)'
    BY <1>1, <1>3, <1>4, <2>1 DEF RequestOK, AnswerOK, IsFirst, Same, Kind, tables
  <2> QED BY <2>2, <2>3, <2>4 DEF RequestOK
<1> QED BY <1>5, <1>6, <1>7, <1>8, <1>9, <1>10 DEF IInv

LEMMA CheckStep ==
  ASSUME IInv, NEW r \in Requests, CheckEmail(r) \/ CheckPhone(r)
  PROVE  IInv'
<1>1. PICK column \in {"email", "phone"}, taken \in BOOLEAN :
        /\ Read(r, column, taken)
        /\ column = "email" => taken = \E u \in users : u.email = post[r].email
        /\ column = "phone" => taken = \E u \in users : post[r].phone = NoPhone \/ u.phone = post[r].phone
  BY DEF CheckEmail, CheckPhone
<1>2. /\ req' \in ReqType
      /\ req'[r].reads = req[r].reads \ {column} /\ req'[r].taken = (req[r].taken \/ taken)
      /\ req'[r].pc \in {"checking", "refused", "inserting", "updating"}
      /\ req'[r].pc = "inserting" => Kind(r) = "register"
      /\ req'[r].pc \in {"inserting", "updating"} => req'[r].reads = {} /\ ~req'[r].taken
      /\ \A q \in Requests \ {r} : req'[q] = req[q]
  <2> DEFINE reads == req[r].reads \ {column}
             refuse == req[r].taken \/ taken
             pc == IF reads # {} THEN "checking"
                   ELSE IF refuse THEN "refused"
                   ELSE IF Kind(r) = "register" THEN "inserting" ELSE "updating"
  <2>1. req \in ReqType
    BY DEF IInv, TypeOK, ReqType
  <2>2. req' = [req EXCEPT ![r] = [@ EXCEPT !.reads = reads, !.taken = refuse, !.pc = pc]]
    BY <1>1 DEF Read
  <2>3. reads \in SUBSET {"email", "phone"} /\ refuse \in BOOLEAN /\ pc \in Steps
    BY <2>1 DEF ReqType, Steps
  <2>4. /\ pc \in {"checking", "refused", "inserting", "updating"}
        /\ pc = "inserting" => Kind(r) = "register"
        /\ pc \in {"inserting", "updating"} => reads = {} /\ ~refuse
    OBVIOUS
  <2> HIDE DEF reads, refuse, pc
  <2>5. [req[r] EXCEPT !.reads = reads, !.taken = refuse, !.pc = pc]
          \in [pc: Steps, reads: SUBSET {"email", "phone"}, taken: BOOLEAN, address: Requests \cup {"none"}]
    BY <2>1, <2>3 DEF ReqType
  <2>6. req' \in ReqType /\ req'[r].reads = reads /\ req'[r].taken = refuse /\ req'[r].pc = pc
        /\ \A q \in Requests \ {r} : req'[q] = req[q]
    BY <2>1, <2>2, <2>5 DEF ReqType
  <2> QED BY <2>4, <2>6 DEF reads, refuse
<1>3. r \in Running /\ req[r].pc = "checking" /\ UNCHANGED <<post, tables, met>>
  BY <1>1 DEF Read, Running
<1>4. RequestOK(r)
  BY DEF IInv
<1>5. EmailFree(r)' => \A u \in users : u.email = post[r].email => u.by \in met[r]
  BY <1>1, <1>2, <1>3, <1>4 DEF RequestOK, LooksOK, EmailFree, Asks, Kind
<1>6. PhoneFree(r)' => \A u \in users : u.phone = post[r].phone /\ u.phone # NoPhone => u.id \in met[r]
  BY <1>1, <1>2, <1>3, <1>4 DEF RequestOK, LooksOK, PhoneFree, Asks, Kind
<1>7. Asks(r)' => Asks(r)
  BY <1>3 DEF Asks, Kind
<1>8. LooksOK(r)'
  BY <1>2, <1>3, <1>5, <1>6 DEF LooksOK, Kind, tables
<1>9. RequestOK(r)'
  BY <1>2, <1>3, <1>8 DEF RequestOK, Asks, AnswerOK
<1> QED BY <1>2, <1>3, <1>9, ReadStep

LEMMA InsertUserStep ==
  ASSUME IInv, NEW r \in Requests, InsertUser(r)
  PROVE  IInv'
<1> DEFINE user == [id |-> r, email |-> post[r].email, phone |-> post[r].phone, by |-> r]
<1>1. Kind(r) = "register" /\ req[r].pc = "inserting" /\ r \in Running
  BY DEF InsertUser, Running
<1>2. users' = users \cup {user} /\ UNCHANGED <<post, met, wallets, identities>>
  BY DEF InsertUser, Written
<1>3. /\ req' \in ReqType /\ req'[r].pc \in {"success", "failed"}
      /\ \A q \in Requests \ {r} : req'[q] = req[q]
  BY <1>1, EndFacts DEF InsertUser, Written
<1>4. RequestOK(r) /\ EmailFree(r) /\ PhoneFree(r)
  BY <1>1 DEF IInv, RequestOK, Asks, EmailFree, PhoneFree
<1>5. user \in [id: Requests, email: Emails, phone: Phones \cup {NoPhone}, by: Requests]
  BY <1>1, PostFacts DEF IInv
<1>6. TypeOK'
  BY <1>2, <1>3, <1>5 DEF IInv, TypeOK, ReqType
<1>7. \A u \in users : u.id \in Requests \ {r} /\ u.by \in Requests
  BY <1>1 DEF IInv, UsersOK, TypeOK
<1>8. UsersOK'
  <2>1. \A u \in users : req'[u.id].pc \in {"success", "failed"}
    BY <1>3, <1>7 DEF IInv, UsersOK
  <2>2. user.id = r
    OBVIOUS
  <2> HIDE DEF user
  <2> QED BY <1>2, <1>3, <1>7, <2>1, <2>2 DEF IInv, UsersOK
<1>9. ASSUME NEW u \in users
      PROVE  /\ u.email = user.email => u.by \in met[r] /\ r \in met[u.by]
             /\ u.phone = user.phone /\ u.phone # NoPhone => u.id \in met[r] /\ r \in met[u.id]
  BY <1>4, <1>7 DEF RequestOK, LooksOK, IInv, MetOK
<1>10. UsersDistinct'
  <2>1. user.by = r /\ user.id = r
    OBVIOUS
  <2> HIDE DEF user
  <2> QED BY <1>2, <1>9, <2>1 DEF IInv, UsersDistinct
<1>11. MetOK' /\ RowsDistinct'
  BY <1>1, <1>2, <1>3, MetStays DEF IInv, RowsDistinct
<1>12. RequestOK(r)'
  BY <1>1, <1>2, <1>3 DEF RequestOK, LooksOK, EmailFree, PhoneFree, Asks, AnswerOK, Kind
<1>13. ASSUME NEW q \in Requests \ {r}
       PROVE  RequestOK(q)'
  <2>1. RequestOK(q)
    BY DEF IInv
  <2>2. Asks(q) => r \in met[q]
    BY <1>1 DEF IInv, MetOK, Asks, Running
  <2>3. LooksOK(q)'
    BY <1>2, <1>3, <2>1, <2>2 DEF RequestOK, LooksOK, Asks, EmailFree, PhoneFree, Same, Kind
  <2> QED BY <1>2, <1>3, <2>1, <2>3 DEF RequestOK, Asks, AnswerOK, IsFirst, Same, Kind
<1> QED BY <1>6, <1>8, <1>10, <1>11, <1>12, <1>13 DEF IInv

LEMMA UpdateEmailStep ==
  ASSUME IInv, NEW r \in Requests, UpdateEmail(r)
  PROVE  IInv'
<1> DEFINE new(u) == [u EXCEPT !.email = post[r].email, !.by = r]
<1>1. Kind(r) = "changeEmail" /\ req[r].pc = "updating" /\ r \in Running
  BY DEF UpdateEmail, Running
<1>2. /\ users' = {IF u.id = post[r].user THEN new(u) ELSE u : u \in users}
      /\ UNCHANGED <<post, met, wallets, identities>>
  BY DEF UpdateEmail, Written
<1>3. /\ req' \in ReqType /\ req'[r].pc \in {"success", "failed"}
      /\ \A q \in Requests \ {r} : req'[q] = req[q]
  BY <1>1, EndFacts DEF UpdateEmail, Written
<1>4. RequestOK(r) /\ EmailFree(r)
  BY <1>1 DEF IInv, RequestOK, Asks, EmailFree
<1>5. \A u \in users : /\ u \in [id: Requests, email: Emails, phone: Phones \cup {NoPhone}, by: Requests]
                       /\ u.id # r
  BY <1>1 DEF IInv, UsersOK, TypeOK
<1>6. ASSUME NEW u \in users
      PROVE  /\ new(u) \in [id: Requests, email: Emails, phone: Phones \cup {NoPhone}, by: Requests]
             /\ new(u).id = u.id /\ new(u).phone = u.phone /\ new(u).email = post[r].email /\ new(u).by = r
  BY <1>1, <1>5, PostFacts DEF IInv
<1> HIDE DEF new
\* A row after the step is a row before it, or the row of the user with a new e-mail.
<1>7. ASSUME NEW v \in users'
      PROVE  \E u \in users : /\ v.id = u.id /\ v.phone = u.phone
                              /\ \/ u.id # post[r].user /\ v = u
                                 \/ u.id = post[r].user /\ v = new(u) /\ v.email = post[r].email /\ v.by = r
  BY <1>2, <1>6
<1>8. TypeOK'
  <2>1. users' \subseteq [id: Requests, email: Emails, phone: Phones \cup {NoPhone}, by: Requests]
    BY <1>2, <1>5, <1>6
  <2> QED BY <1>2, <1>3, <2>1 DEF IInv, TypeOK, ReqType
<1>9. UsersOK'
  <2>1. ASSUME NEW v \in users', NEW w \in users', v.id = w.id
        PROVE  v = w
    BY <1>7, <2>1 DEF IInv, UsersOK
  <2>2. ASSUME NEW v \in users'
        PROVE  req'[v.id].pc \in {"success", "failed"}
    BY <1>3, <1>5, <1>7 DEF IInv, UsersOK
  <2> QED BY <2>1, <2>2 DEF UsersOK
<1>10. ASSUME NEW u \in users, u.email = post[r].email
       PROVE  u.by \in met[r] /\ r \in met[u.by]
  BY <1>4, <1>5, <1>10 DEF RequestOK, LooksOK, IInv, MetOK
<1>11. ASSUME NEW v \in users', NEW w \in users', v # w
       PROVE  /\ v.email = w.email => v.by \in met[w.by]
              /\ v.phone = w.phone /\ v.phone # NoPhone => v.id \in met[w.id]
  <2>1. v.id # w.id
    BY <1>9, <1>11 DEF UsersOK
  <2>2. PICK u \in users : /\ v.id = u.id /\ v.phone = u.phone
                           /\ \/ u.id # post[r].user /\ v = u
                              \/ u.id = post[r].user /\ v.email = post[r].email /\ v.by = r
    BY <1>7
  <2>3. PICK x \in users : /\ w.id = x.id /\ w.phone = x.phone
                           /\ \/ x.id # post[r].user /\ w = x
                              \/ x.id = post[r].user /\ w.email = post[r].email /\ w.by = r
    BY <1>7
  <2>4. u # x
    BY <2>1, <2>2, <2>3
  <2>5. /\ u.email = x.email => u.by \in met[x.by]
        /\ u.phone = x.phone /\ u.phone # NoPhone => u.id \in met[x.id]
    BY <2>4 DEF IInv, UsersDistinct
  <2> QED BY <1>10, <2>1, <2>2, <2>3, <2>5
<1>12. UsersDistinct'
  BY <1>2, <1>11 DEF UsersDistinct
<1>13. MetOK' /\ RowsDistinct'
  BY <1>1, <1>2, <1>3, MetStays DEF IInv, RowsDistinct
<1>14. RequestOK(r)'
  BY <1>1, <1>2, <1>3 DEF RequestOK, LooksOK, EmailFree, PhoneFree, Asks, AnswerOK, Kind
<1>15. ASSUME NEW q \in Requests \ {r}
       PROVE  RequestOK(q)'
  <2>1. RequestOK(q)
    BY DEF IInv
  <2>2. Asks(q) => r \in met[q]
    BY <1>1 DEF IInv, MetOK, Asks, Running
  <2>3. EmailFree(q)' => \A v \in users' : v.email = post[q].email => v.by \in met[q]
    BY <1>3, <1>2, <1>7, <2>1, <2>2 DEF RequestOK, LooksOK, EmailFree, Asks, Kind
  <2>4. PhoneFree(q)' => \A v \in users' : v.phone = post[q].phone /\ v.phone # NoPhone => v.id \in met[q]
    BY <1>3, <1>2, <1>7, <2>1 DEF RequestOK, LooksOK, PhoneFree, Asks, Kind
  <2>5. LooksOK(q)'
    BY <1>2, <1>3, <2>1, <2>3, <2>4 DEF RequestOK, LooksOK, Same, Kind
  <2> QED BY <1>2, <1>3, <2>1, <2>5 DEF RequestOK, Asks, AnswerOK, IsFirst, Same, Kind
<1> QED BY <1>8, <1>9, <1>12, <1>13, <1>14, <1>15 DEF IInv

\* searchAddress finds the first wallet, if there is one.
LEMMA FirstFound ==
  ASSUME TypeOK, NEW r \in Requests, NEW i, IsFirst(i, r)
  PROVE  Address(post[r].user, post[r].network) = wallets[i].address
<1> DEFINE M == Matches(post[r].user, post[r].network)
<1>1. M = {k \in DOMAIN wallets : Same(k, r)} /\ \A k \in M : k \in Nat
  BY WalletFacts DEF Matches, Same
<1>2. i \in M /\ \A k \in M : i <= k
  BY <1>1 DEF IsFirst
<1>3. \A k \in M : (\A j \in M : k <= j) => k = i
  BY <1>1, <1>2
<1>4. (CHOOSE k \in M : \A j \in M : k <= j) = i
  BY <1>2, <1>3
<1> QED BY <1>4 DEF Address

\* A user with a wallet has a first one.
LEMMA FirstExists ==
  ASSUME TypeOK, NEW r \in Requests, Matches(post[r].user, post[r].network) # {}
  PROVE  \E i \in DOMAIN wallets : IsFirst(i, r)
<1> DEFINE M == Matches(post[r].user, post[r].network)
<1>1. M = {k \in DOMAIN wallets : Same(k, r)} /\ M \subseteq Nat
  BY WalletFacts DEF Matches, Same
<1>2. PICK i \in M : \A k \in M : i <= k
  <2> DEFINE R == {ss \in Nat \X Nat : ss[1] < ss[2]}
  <2>1. IsWellFoundedOn(R, Nat)
    BY NatLessThanWellFounded DEF OpToRel
  <2>2. M # {}
    OBVIOUS
  <2>3. M \subseteq Nat
    BY <1>1
  <2>5. ASSUME NEW x \in Nat, NEW y \in Nat, <<x, y>> \notin R
        PROVE  y <= x
    BY <2>5
  <2> HIDE DEF M, R
  <2>4. \E i \in M : \A k \in M : ~ (<<k, i>> \in R)
    BY <2>1, <2>2, <2>3, WFMin, Zenon
  <2> QED BY <2>3, <2>4, <2>5
<1> QED BY <1>1, <1>2 DEF IsFirst
-----------------------------------------------------------------------------
(* Deposit addresses and documents.                                        *)

LEMMA SearchAddressStep ==
  ASSUME IInv, NEW r \in Requests, SearchAddress(r)
  PROVE  IInv'
<1>1. /\ Kind(r) = "getAddress" /\ req[r].pc = "searching" /\ r \in Running
      /\ UNCHANGED <<post, tables, met>>
  BY DEF SearchAddress, Running
<1>2. RequestOK(r) /\ TypeOK /\ req \in ReqType
  BY DEF IInv, TypeOK, ReqType
<1>3. CASE Matches(post[r].user, post[r].network) = {}
  <2>1. /\ req' \in ReqType /\ req'[r].pc = "inserting"
        /\ \A q \in Requests \ {r} : req'[q] = req[q]
    BY <1>2, <1>3 DEF SearchAddress, Goes, ReqType, Steps
  <2>2. \A i \in DOMAIN wallets : ~Same(i, r)
    BY <1>2, <1>3, WalletFacts DEF Matches, Same
  <2>3. RequestOK(r)'
    BY <1>1, <2>1, <2>2 DEF RequestOK, LooksOK, EmailFree, PhoneFree, Asks, AnswerOK, Same, Kind, tables
  <2> QED BY <1>1, <2>1, <2>3, ReadStep
<1>4. CASE Matches(post[r].user, post[r].network) # {}
  <2>1. PICK i \in DOMAIN wallets : IsFirst(i, r)
    BY <1>2, <1>4, FirstExists
  <2>2. Address(post[r].user, post[r].network) = wallets[i].address /\ wallets[i].address \in Requests
    BY <1>2, <2>1, FirstFound, WalletFacts
  <2>3. req' = [req EXCEPT ![r] = [@ EXCEPT !.pc = "success", !.address = wallets[i].address]]
    BY <1>4, <2>2 DEF SearchAddress
  <2>4. [req[r] EXCEPT !.pc = "success", !.address = wallets[i].address]
          \in [pc: Steps, reads: SUBSET {"email", "phone"}, taken: BOOLEAN, address: Requests \cup {"none"}]
    <3> DEFINE address == wallets[i].address
    <3> HIDE DEF address
    <3>1. address \in Requests
      BY <2>2 DEF address
    <3>2. [req[r] EXCEPT !.pc = "success", !.address = address]
            \in [pc: Steps, reads: SUBSET {"email", "phone"}, taken: BOOLEAN, address: Requests \cup {"none"}]
      BY <1>2, <3>1, ZenonT(90) DEF ReqType, Steps
    <3> QED BY <3>2 DEF address
  <2>5. /\ req' \in ReqType /\ req'[r].pc = "success" /\ req'[r].address = wallets[i].address
        /\ \A q \in Requests \ {r} : req'[q] = req[q]
    BY <1>2, <2>3, <2>4 DEF ReqType
  <2>6. AnswerOK(r)'
    BY <1>1, <2>1, <2>5 DEF AnswerOK, IsFirst, Same, Kind, tables
  <2>7. RequestOK(r)'
    BY <1>1, <2>5, <2>6 DEF RequestOK, LooksOK, EmailFree, PhoneFree, Asks, Kind
  <2> QED BY <1>1, <2>5, <2>7, ReadStep
<1> QED BY <1>3, <1>4

LEMMA SaveAddressStep ==
  ASSUME IInv, NEW r \in Requests, SaveAddress(r)
  PROVE  IInv'
<1> DEFINE wallet == [user |-> post[r].user, network |-> post[r].network, address |-> r]
<1>1. /\ Kind(r) = "getAddress" /\ req[r].pc = "inserting" /\ r \in Running
      /\ UNCHANGED <<post, users, identities, met>>
  BY DEF SaveAddress, Running
<1>2. RequestOK(r) /\ TypeOK /\ req \in ReqType
  BY DEF IInv, TypeOK, ReqType
<1>3. /\ req' \in ReqType /\ req'[r].pc \in {"success", "failed"}
      /\ req'[r].pc = "success" => req'[r].address = r
      /\ \A q \in Requests \ {r} : req'[q] = req[q]
  <2>1. CASE Goes(r, "failed")
    BY <1>2, <2>1 DEF Goes, ReqType, Steps
  <2>2. CASE req' = [req EXCEPT ![r].pc = "success", ![r].address = r]
    <3>1. req' = [req EXCEPT ![r] = [@ EXCEPT !.pc = "success", !.address = r]]
      BY <2>2
    <3>2. [req[r] EXCEPT !.pc = "success", !.address = r]
            \in [pc: Steps, reads: SUBSET {"email", "phone"}, taken: BOOLEAN, address: Requests \cup {"none"}]
      BY <1>2 DEF ReqType, Steps
    <3> QED BY <1>2, <3>1, <3>2 DEF ReqType
  <2> QED BY <2>1, <2>2 DEF SaveAddress
<1>4. wallet \in [user: Requests, network: Networks, address: Requests]
  BY <1>1, <1>2, PostFacts
<1>5. /\ wallet.user = post[r].user /\ wallet.network = post[r].network /\ wallet.address = r
  OBVIOUS
<1>6. wallets' = Append(wallets, wallet)
  BY DEF SaveAddress
<1> HIDE DEF wallet
<1>7. wallets' \in Seq([user: Requests, network: Networks, address: Requests])
  BY <1>2, <1>4, <1>6 DEF TypeOK
<1>8. PICK n \in Nat :
        /\ n > 0 /\ DOMAIN wallets = 1 .. (n - 1) /\ DOMAIN wallets' = 1 .. n /\ wallets'[n] = wallet
        /\ \A i \in DOMAIN wallets : wallets'[i] = wallets[i] /\ i < n /\ i \in Nat
  <2>1. wallets \in Seq([user: Requests, network: Networks, address: Requests])
    BY <1>2 DEF TypeOK
  <2>2. PICK n \in Nat : n = Len(wallets) + 1
    BY <2>1
  <2>3. /\ n > 0 /\ DOMAIN wallets = 1 .. (n - 1) /\ DOMAIN wallets' = 1 .. n /\ wallets'[n] = wallet
        /\ \A i \in DOMAIN wallets : wallets'[i] = wallets[i] /\ i < n /\ i \in Nat
    BY <1>4, <1>6, <2>1, <2>2
  <2> QED BY <2>3
<1>9. TypeOK'
  BY <1>1, <1>2, <1>3, <1>7 DEF TypeOK, ReqType
<1>10. \A i \in DOMAIN wallets : Same(i, r) => wallets[i].address \in met[r] /\ r \in met[wallets[i].address]
  BY <1>1, <1>2, WalletFacts DEF RequestOK, LooksOK, IInv, MetOK
<1>11. UsersDistinct'
  BY <1>1 DEF IInv, UsersDistinct
<1>12. RowsDistinct'
  <2>1. ASSUME NEW i \in DOMAIN wallets', NEW k \in DOMAIN wallets', i # k,
               wallets'[i].user = wallets'[k].user, wallets'[i].network = wallets'[k].network
        PROVE  wallets'[i].address \in met[wallets'[k].address]
    <3>1. CASE i \in DOMAIN wallets /\ k \in DOMAIN wallets
      BY <1>8, <2>1, <3>1 DEF IInv, RowsDistinct
    <3>2. CASE i = n /\ k \in DOMAIN wallets
      BY <1>5, <1>8, <1>10, <2>1, <3>2 DEF Same
    <3>3. CASE k = n /\ i \in DOMAIN wallets
      BY <1>5, <1>8, <1>10, <2>1, <3>3 DEF Same
    <3> QED BY <1>8, <2>1, <3>1, <3>2, <3>3
  <2> QED BY <1>1, <2>1 DEF IInv, RowsDistinct
<1>13. UsersOK'
  <2>1. \A u \in users : u.id \in Requests \ {r}
    BY <1>1 DEF IInv, UsersOK, TypeOK
  <2> QED BY <1>1, <1>3, <2>1 DEF IInv, UsersOK
<1>14. MetOK'
  BY <1>1, <1>3, MetStays
\* The first wallet of a user who has one stays the first.
<1>15. ASSUME NEW q \in Requests, NEW i \in DOMAIN wallets, IsFirst(i, q)
       PROVE  IsFirst(i, q)' /\ i \in DOMAIN wallets'
  BY <1>1, <1>8, <1>15 DEF IsFirst, Same
<1>16. AnswerOK(r)'
  <2>1. SUFFICES ASSUME req'[r].pc = "success"
                 PROVE  \E i \in DOMAIN wallets' :
                          /\ IsFirst(i, r)'
                          /\ req'[r].address = wallets'[i].address
                             \/ (req'[r].address = r /\ wallets'[i].address \in met[r])
    BY <1>1 DEF AnswerOK
  <2>2. CASE Matches(post[r].user, post[r].network) # {}
    <3>1. PICK i \in DOMAIN wallets : IsFirst(i, r)
      BY <1>2, <2>2, FirstExists
    <3>2. wallets'[i].address \in met[r]
      BY <1>8, <1>10, <3>1 DEF IsFirst
    <3> QED BY <1>3, <1>15, <2>1, <3>1, <3>2
  <2>3. CASE Matches(post[r].user, post[r].network) = {}
    <3>1. \A i \in DOMAIN wallets : ~Same(i, r)
      BY <1>2, <2>3, WalletFacts DEF Matches, Same
    <3>2. n \in DOMAIN wallets' /\ Same(n, r)'
      BY <1>1, <1>5, <1>8 DEF Same
    <3>3. ASSUME NEW k \in DOMAIN wallets', k # n
          PROVE  ~Same(k, r)'
      BY <1>1, <1>8, <3>1, <3>3 DEF Same
    <3>4. IsFirst(n, r)'
      BY <1>8, <3>2, <3>3 DEF IsFirst
    <3> QED BY <1>3, <1>5, <1>8, <2>1, <3>2, <3>4
  <2> QED BY <2>2, <2>3
<1>17. RequestOK(r)'
  BY <1>1, <1>3, <1>16 DEF RequestOK, LooksOK, EmailFree, PhoneFree, Asks, Kind
<1>18. ASSUME NEW q \in Requests \ {r}
       PROVE  RequestOK(q)'
  <2>1. RequestOK(q)
    BY DEF IInv
  <2>2. q \in Running => r \in met[q]
    BY <1>1 DEF IInv, MetOK
  <2>3. (Kind(q) = "getAddress" /\ req[q].pc = "inserting"
           => \A i \in DOMAIN wallets : Same(i, q) => wallets[i].address \in met[q])'
    BY <1>1, <1>3, <1>5, <1>8, <2>1, <2>2 DEF RequestOK, LooksOK, Same, Kind, Running
  <2>4. LooksOK(q)'
    BY <1>1, <1>3, <2>1, <2>3 DEF RequestOK, LooksOK, EmailFree, PhoneFree, Asks, Kind
  <2>5. AnswerOK(q)'
    BY <1>1, <1>3, <1>8, <1>15, <2>1 DEF RequestOK, AnswerOK, Kind
  <2> QED BY <1>1, <1>3, <2>1, <2>4, <2>5 DEF RequestOK, Asks, Kind
<1> QED BY <1>9, <1>11, <1>12, <1>13, <1>14, <1>17, <1>18 DEF IInv

LEMMA FindIdentityStep ==
  ASSUME IInv, NEW r \in Requests, FindIdentity(r)
  PROVE  IInv'
<1>1. /\ Kind(r) = "upload" /\ req[r].pc = "searching" /\ r \in Running
      /\ UNCHANGED <<post, tables, met>>
  BY DEF FindIdentity, Running
<1>2. PICK pc \in {"inserting", "updating"} :
        /\ Goes(r, pc)
        /\ pc = "inserting" => \A i \in identities : i.user # post[r].user
  BY DEF FindIdentity
<1>3. req' \in ReqType /\ req'[r].pc = pc /\ \A q \in Requests \ {r} : req'[q] = req[q]
  BY <1>2 DEF Goes, IInv, TypeOK, ReqType, Steps
<1>4. RequestOK(r)'
  BY <1>1, <1>2, <1>3 DEF RequestOK, LooksOK, EmailFree, PhoneFree, Asks, AnswerOK, Kind, tables
<1> QED BY <1>1, <1>3, <1>4, ReadStep

\* A request that ends without writing anything, because a statement fails or
\* because nothing that is told apart is updated.
LEMMA EndStep ==
  ASSUME IInv, NEW r \in Requests, r \in Running, NEW pc \in {"success", "failed"}, Goes(r, pc),
         pc = "success" => Kind(r) # "getAddress",
         UNCHANGED <<post, tables, met>>
  PROVE  IInv'
<1>1. req' \in ReqType /\ req'[r].pc = pc /\ \A q \in Requests \ {r} : req'[q] = req[q]
  BY EndFacts
<1>2. RequestOK(r)'
  BY <1>1 DEF RequestOK, LooksOK, EmailFree, PhoneFree, Asks, AnswerOK, Kind
<1> QED BY <1>1, <1>2, ReadStep

LEMMA InsertIdentityStep ==
  ASSUME IInv, NEW r \in Requests, InsertIdentity(r)
  PROVE  IInv'
<1> DEFINE row == [user |-> post[r].user, id |-> r]
<1>1. /\ Kind(r) = "upload" /\ req[r].pc = "inserting" /\ r \in Running
      /\ identities' = identities \cup {row} /\ UNCHANGED <<post, users, wallets, met>>
  BY DEF InsertIdentity, Written, Running
<1>2. RequestOK(r) /\ TypeOK
  BY DEF IInv
<1>3. /\ req' \in ReqType /\ req'[r].pc \in {"success", "failed"}
      /\ \A q \in Requests \ {r} : req'[q] = req[q]
  BY <1>1, EndFacts DEF InsertIdentity, Written
<1>4. row \in [user: Requests, id: Requests] /\ row.user = post[r].user /\ row.id = r
  BY <1>1, <1>2, PostFacts
<1> HIDE DEF row
<1>5. TypeOK'
  BY <1>1, <1>2, <1>3, <1>4 DEF TypeOK, ReqType
<1>6. ASSUME NEW i \in identities, i.user = post[r].user
      PROVE  i.id \in met[r] /\ r \in met[i.id]
  BY <1>1, <1>2, <1>6 DEF RequestOK, LooksOK, IInv, MetOK, TypeOK
<1>7. UsersDistinct' /\ RowsDistinct'
  <2>1. UsersDistinct'
    BY <1>1 DEF IInv, UsersDistinct
  <2>2. (\A i, k \in identities : i # k /\ i.user = k.user => i.id \in met[k.id])'
    BY <1>1, <1>4, <1>6 DEF IInv, RowsDistinct
  <2> QED BY <1>1, <2>1, <2>2 DEF IInv, RowsDistinct
<1>8. UsersOK'
  <2>1. \A u \in users : u.id \in Requests \ {r}
    BY <1>1 DEF IInv, UsersOK, TypeOK
  <2> QED BY <1>1, <1>3, <2>1 DEF IInv, UsersOK
<1>9. MetOK'
  BY <1>1, <1>3, MetStays
<1>10. RequestOK(r)'
  BY <1>1, <1>3 DEF RequestOK, LooksOK, EmailFree, PhoneFree, Asks, AnswerOK, Kind
<1>11. ASSUME NEW q \in Requests \ {r}
       PROVE  RequestOK(q)'
  <2>1. RequestOK(q)
    BY DEF IInv
  <2>2. q \in Running => r \in met[q]
    BY <1>1 DEF IInv, MetOK
  <2>3. (Kind(q) = "upload" /\ req[q].pc = "inserting"
           => \A i \in identities : i.user = post[q].user => i.id \in met[q])'
    BY <1>1, <1>3, <1>4, <2>1, <2>2 DEF RequestOK, LooksOK, Kind, Running
  <2>4. LooksOK(q)'
    BY <1>1, <1>3, <2>1, <2>3 DEF RequestOK, LooksOK, EmailFree, PhoneFree, Asks, Same, Kind
  <2> QED BY <1>1, <1>3, <2>1, <2>4 DEF RequestOK, Asks, AnswerOK, IsFirst, Same, Kind
<1> QED BY <1>5, <1>7, <1>8, <1>9, <1>10, <1>11 DEF IInv
-----------------------------------------------------------------------------
(* The theorems.                                                           *)

LEMMA NextStep == IInv /\ [Next]_vars => IInv'
<1> SUFFICES ASSUME IInv, [Next]_vars PROVE IInv'
  OBVIOUS
<1>1. ASSUME NEW r \in Requests, Register(r) \/ ChangeEmail(r) \/ GetAddress(r) \/ Upload(r)
      PROVE  IInv'
  BY <1>1, BeginStep DEF Register, ChangeEmail, GetAddress, Upload
<1>2. ASSUME NEW r \in Requests, Fail(r)
      PROVE  IInv'
  BY <1>2, EndStep DEF Fail
<1>3. ASSUME NEW r \in Requests, UpdateIdentity(r)
      PROVE  IInv'
  <2>1. Kind(r) = "upload" /\ r \in Running /\ UNCHANGED <<post, tables, met>>
    BY <1>3 DEF UpdateIdentity, Written, Running
  <2> QED BY <1>3, <2>1, EndStep DEF UpdateIdentity, Written
<1>4. CASE UNCHANGED vars
  <2>1. TypeOK' /\ UsersDistinct' /\ RowsDistinct' /\ UsersOK' /\ MetOK'
    BY <1>4 DEF vars, IInv, TypeOK, UsersDistinct, RowsDistinct, UsersOK, MetOK, Running
  <2>2. \A r \in Requests : RequestOK(r)'
    BY <1>4 DEF vars, IInv, RequestOK, LooksOK, EmailFree, PhoneFree, Asks, AnswerOK, IsFirst, Same, Kind
  <2> QED BY <2>1, <2>2 DEF IInv
<1> QED BY <1>1, <1>2, <1>3, <1>4, CheckStep, InsertUserStep, UpdateEmailStep, SearchAddressStep,
           SaveAddressStep, FindIdentityStep, InsertIdentityStep DEF Next

\* The inductive invariant.
THEOREM Invariant == Spec => []IInv
  BY InitOK, NextStep, PTL DEF Spec

\* The variables have the types of code and tables, for any number of requests.
THEOREM TypeCorrect == Spec => []TypeOK
<1>1. IInv => TypeOK
  BY DEF IInv
<1> QED BY <1>1, Invariant, PTL

\* Only register and changeEmail that overlap give two users one e-mail or phone
\* number (existUserData, saveUser, updateUser).
THEOREM UsersAreDistinct == Spec => []UsersDistinct
<1>1. IInv => UsersDistinct
  BY DEF IInv
<1> QED BY <1>1, Invariant, PTL

\* Only getAddress or upload that overlap give a user a second wallet on a network
\* or a second row of documents (saveAddress, updateIdentity).
THEOREM RowsAreDistinct == Spec => []RowsDistinct
<1>1. IInv => RowsDistinct
  BY DEF IInv
<1> QED BY <1>1, Invariant, PTL

\* An address that was answered is the one that searchAddress finds ever after, or a
\* new one that was made while another was made.
THEOREM AddressesAreKept == Spec => []AddressIsKept
<1>1. ASSUME IInv
      PROVE  AddressIsKept
  <2>1. ASSUME NEW r \in Requests, Kind(r) = "getAddress", req[r].pc = "success"
        PROVE  LET address == Address(post[r].user, post[r].network)
               IN  req[r].address = address \/ (req[r].address = r /\ address \in met[r])
    <3>1. PICK i \in DOMAIN wallets :
            IsFirst(i, r) /\ (req[r].address = wallets[i].address
                              \/ (req[r].address = r /\ wallets[i].address \in met[r]))
      BY <1>1, <2>1 DEF IInv, RequestOK, AnswerOK
    <3>2. Address(post[r].user, post[r].network) = wallets[i].address
      BY <1>1, <3>1, FirstFound DEF IInv
    <3> QED BY <3>1, <3>2
  <2> QED BY <2>1 DEF AddressIsKept
<1> QED BY <1>1, Invariant, PTL
=============================================================================
