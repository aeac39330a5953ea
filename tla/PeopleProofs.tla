----------------------------- MODULE PeopleProofs -----------------------------
(***************************************************************************)
(* Accounts, sessions and the staff's notifications, for any number of     *)
(* rows, tokens and requests in flight.  What a request or a token         *)
(* remembers may be old; each proof carries what of it stays true.         *)
(***************************************************************************)
EXTENDS Accounts, Sessions, StaffNotices, TLAPS

-----------------------------------------------------------------------------
(* Accounts *)

\* Rows are entered whole and never leave.
RowsWhole == \A c \in Customers : customer[c].email = NULL => customer[c] = NoRow

HasRow(c) == c \in Customers /\ customer[c].email # NULL

\* Requests and tokens that name a customer name one who has a row, and a
\* change of address a token that is there.
NamesRows ==
  /\ \A r \in Callers : caller[r].at \in {"mail", "mark", "verify", "mailChange", "change", "link"}
       => HasRow(caller[r].customer)
  /\ \A r \in Callers : caller[r].at = "change" =>
       caller[r].token \in ChangeTokens /\ changeToken[caller[r].token] # NULL
  /\ \A t \in verifyTokens : HasRow(t.customer)
  /\ \A t \in ChangeTokens : changeToken[t] # NULL => HasRow(changeToken[t].customer)

AccountInv == AccountTypeOK /\ RowsWhole /\ NamesRows

\* The look-up finds the one customer who has the address.
LEMMA LookUp ==
  ASSUME AccountTypeOK, NEW e \in Emails
  PROVE  /\ GetCustomerByEmail(e) \in Customers \cup {NULL}
         /\ \A c \in Customers : customer[c].email = e <=> c = GetCustomerByEmail(e)
<1>1. CASE \E c \in Customers : customer[c].email = e
  <2>1. PICK c \in Customers : customer[c].email = e
    BY <1>1
  <2>2. \A d \in Customers : customer[d].email = e => d = c
    BY <2>1, AccountAssumption DEF AccountTypeOK
  <2>3. GetCustomerByEmail(e) = c
    BY <2>1, <2>2 DEF GetCustomerByEmail
  <2> QED
    BY <2>1, <2>2, <2>3
<1>2. CASE ~\E c \in Customers : customer[c].email = e
  BY <1>2, AccountAssumption DEF GetCustomerByEmail
<1> QED
  BY <1>1, <1>2

LEMMA CallerKnows ==
  ASSUME AccountTypeOK, NEW r \in Callers, caller[r].at \in Steps
  PROVE  /\ caller[r].customer \in Customers \cup {NULL}
         /\ caller[r].email \in Emails
         /\ caller[r].token \in ChangeTokens \cup {NULL}
  BY DEF AccountTypeOK, Steps, Away

RowSet == [email : Emails \cup {NULL}, password : BOOLEAN, verified : BOOLEAN]

RowsTyped ==
  /\ customer \in [Customers -> RowSet]
  /\ \A c, d \in Customers :
       c # d /\ customer[c].email # NULL => customer[c].email # customer[d].email

\* A row may be written with the address it had or one that nobody has.
LEMMA RowWritten ==
  ASSUME AccountTypeOK, NEW c \in Customers, NEW row \in RowSet,
         \A d \in Customers : d # c => customer[d].email # row.email,
         customer' = [customer EXCEPT ![c] = row]
  PROVE  RowsTyped'
<1>1. customer' \in [Customers -> RowSet]
  BY DEF AccountTypeOK, RowSet
<1>2. \A d \in Customers : customer'[d] = IF d = c THEN row ELSE customer[d]
  BY DEF AccountTypeOK
<1>3. \A a, d \in Customers :
        a # d /\ customer'[a].email # NULL => customer'[a].email # customer'[d].email
  BY <1>2 DEF AccountTypeOK
<1> QED
  BY <1>1, <1>3 DEF RowsTyped

\* The other two fields may be set as well.
LEMMA FlagWritten ==
  ASSUME AccountTypeOK, NEW c,
         \/ customer' = [customer EXCEPT ![c].password = TRUE]
         \/ customer' = [customer EXCEPT ![c].verified = TRUE]
  PROVE  RowsTyped'
<1>1. customer \in [Customers -> RowSet]
  BY DEF AccountTypeOK, RowSet
<1>2. customer' \in [Customers -> RowSet]
  <2>1. CASE customer' = [customer EXCEPT ![c].password = TRUE]
    BY <1>1, <2>1 DEF RowSet
  <2>2. CASE customer' = [customer EXCEPT ![c].verified = TRUE]
    BY <1>1, <2>2 DEF RowSet
  <2> QED
    BY <2>1, <2>2
<1>3. \A d \in Customers : customer'[d].email = customer[d].email
  <2>1. CASE customer' = [customer EXCEPT ![c].password = TRUE]
    BY <1>1, <2>1 DEF RowSet
  <2>2. CASE customer' = [customer EXCEPT ![c].verified = TRUE]
    BY <1>1, <2>2 DEF RowSet
  <2> QED
    BY <2>1, <2>2
<1> QED
  BY <1>2, <1>3 DEF AccountTypeOK, RowsTyped

\* A customer may be given an address that nobody else has.
LEMMA EmailWritten ==
  ASSUME AccountTypeOK, NEW c, NEW e \in Emails, GetCustomerByEmail(e) \in {NULL, c},
         customer' = [customer EXCEPT ![c].email = e]
  PROVE  RowsTyped'
<1>1. customer \in [Customers -> RowSet]
  BY DEF AccountTypeOK, RowSet
<1>2. customer' \in [Customers -> RowSet]
  BY <1>1 DEF RowSet
<1>3. \A d \in Customers : customer'[d].email = IF d = c THEN e ELSE customer[d].email
  BY <1>1 DEF RowSet
<1>4. \A d \in Customers : d # c => customer[d].email # e
  BY LookUp, AccountAssumption
<1> QED
  BY <1>2, <1>3, <1>4 DEF AccountTypeOK, RowsTyped

TokenSet == [customer : Customers, email : Emails, used : BOOLEAN]

\* A token that is used is there and stays its customer's.
LEMMA TokenUsed ==
  ASSUME AccountTypeOK, NEW t \in ChangeTokens, changeToken[t] # NULL,
         changeToken' = [changeToken EXCEPT ![t].used = TRUE]
  PROVE  /\ changeToken' \in [ChangeTokens -> TokenSet \cup {NULL}]
         /\ \A s \in ChangeTokens :
              /\ changeToken'[s] # NULL <=> changeToken[s] # NULL
              /\ changeToken[s] # NULL => changeToken'[s].customer = changeToken[s].customer
<1>1. changeToken \in [ChangeTokens -> TokenSet \cup {NULL}] /\ changeToken[t] \in TokenSet
  BY DEF AccountTypeOK, TokenSet
<1>2. PICK token \in TokenSet :
        /\ token.customer = changeToken[t].customer
        /\ changeToken' = [changeToken EXCEPT ![t] = token]
  <2>1. [changeToken[t] EXCEPT !.used = TRUE] \in TokenSet
    BY <1>1 DEF TokenSet
  <2>2. [changeToken[t] EXCEPT !.used = TRUE].customer = changeToken[t].customer
    BY <1>1 DEF TokenSet
  <2> QED
    BY <2>1, <2>2
<1>3. token # NULL
  BY AccountAssumption DEF TokenSet
<1> QED
  BY <1>1, <1>2, <1>3

\* The first outcome of CreateOAuthCustomer.
Creates(r, c) ==
  /\ GetCustomerByEmail(caller[r].email) = NULL
  /\ social[caller[r].email] = NULL
  /\ customer[c] = NoRow
  /\ customer' = [customer EXCEPT ![c] =
       [email |-> caller[r].email, password |-> FALSE, verified |-> TRUE]]
  /\ social' = [social EXCEPT ![caller[r].email] = c]
  /\ Proves(c, caller[r].email)
  /\ SignsIn(r, caller[r].email, c)
  /\ UNCHANGED <<verifyTokens, changeToken>>

LEMMA CreatesTyped ==
  ASSUME AccountTypeOK, NEW r \in Callers, NEW c \in Customers, caller[r].email \in Emails,
         Creates(r, c)
  PROVE  RowsTyped'
<1>1. \A d \in Customers : d # c => customer[d].email # caller[r].email
  BY LookUp, AccountAssumption DEF Creates
<1>2. [email |-> caller[r].email, password |-> FALSE, verified |-> TRUE] \in RowSet
  BY DEF RowSet
<1> DEFINE row == [email |-> caller[r].email, password |-> FALSE, verified |-> TRUE]
<1>3. \A d \in Customers : d # c => customer[d].email # row.email
  BY <1>1
<1>4. row \in RowSet /\ customer' = [customer EXCEPT ![c] = row]
  BY <1>2 DEF Creates
<1> HIDE DEF row
<1> QED
  BY <1>3, <1>4, RowWritten

LEMMA AccountInitInv == AccountInit => AccountInv
  BY AccountAssumption DEF AccountInit, AccountInv, AccountTypeOK, RowsWhole, NamesRows, NoRow, Away

LEMMA AccountStepInv == AccountInv /\ [AccountNext]_accountVars => AccountInv'
<1> SUFFICES ASSUME AccountInv, [AccountNext]_accountVars PROVE AccountInv'
  OBVIOUS
<1> USE AccountAssumption DEF AccountInv, AccountTypeOK, RowsWhole, NamesRows, HasRow, Steps
<1>1. ASSUME NEW c \in Customers, GetsPassword(c) PROVE AccountInv'
  <2>1. AccountTypeOK'
    <3>1. RowsTyped'
      BY <1>1, FlagWritten DEF GetsPassword
    <3> QED
      BY <1>1, <3>1 DEF GetsPassword, RowsTyped, RowSet
  <2>2. RowsWhole'
    BY <1>1 DEF GetsPassword
  <2>3. NamesRows'
    BY <1>1 DEF GetsPassword
  <2> QED
    BY <2>1, <2>2, <2>3
<1>2. ASSUME NEW r \in Callers, NEW c \in Customers, NEW e \in Emails, Register(r, c, e)
      PROVE  AccountInv'
  <2>1. AccountTypeOK'
    BY <1>2, LookUp DEF Register, Proceeds, NoRow
  <2>2. RowsWhole'
    BY <1>2 DEF Register, NoRow
  <2>3. NamesRows'
    BY <1>2, LookUp DEF Register, Proceeds, NoRow
  <2> QED
    BY <2>1, <2>2, <2>3
<1>3. ASSUME NEW r \in Callers, NEW c \in Customers, NEW e \in Emails, RequestEmailChange(r, c, e)
      PROVE  AccountInv'
  BY <1>3 DEF RequestEmailChange, Proceeds, NoRow
<1>4. ASSUME NEW r \in Callers, NEW e \in Emails, ResendVerification(r, e) PROVE AccountInv'
  BY <1>4, LookUp DEF ResendVerification, Proceeds
<1>5. ASSUME NEW r \in Callers, NEW e \in Emails, GetSocialAccount(r, e) PROVE AccountInv'
  <2>1. AccountTypeOK'
    <3>1. signedIn' \in [Emails -> SUBSET Customers]
      BY <1>5 DEF GetSocialAccount, SignsIn
    <3>2. caller' \in [Callers -> {Away} \cup
            [at : Steps, customer : Customers \cup {NULL}, email : Emails,
             token : ChangeTokens \cup {NULL}]]
      BY <1>5 DEF GetSocialAccount, SignsIn, Answers, Proceeds
    <3> QED
      BY <1>5, <3>1, <3>2 DEF GetSocialAccount
  <2>2. RowsWhole'
    BY <1>5 DEF GetSocialAccount, SignsIn, Answers, Proceeds, Away
  <2>3. NamesRows'
    BY <1>5 DEF GetSocialAccount, SignsIn, Answers, Proceeds, Away
  <2> QED
    BY <2>1, <2>2, <2>3
<1>6. ASSUME NEW r \in Callers, NEW t \in verifyTokens, Verify(r, t) PROVE AccountInv'
  BY <1>6 DEF Verify, Proves, Proceeds
<1>7. ASSUME NEW r \in Callers, NEW t \in ChangeTokens, CreateEmailChangeToken(r, t)
      PROVE  AccountInv'
  BY <1>7 DEF CreateEmailChangeToken, Answers, Away
<1>8. ASSUME NEW r \in Callers, NEW t \in ChangeTokens, VerifyEmailChange(r, t) PROVE AccountInv'
  BY <1>8 DEF VerifyEmailChange, Proves, Proceeds
<1>9. ASSUME NEW r \in Callers, CreateEmailVerificationToken(r) PROVE AccountInv'
  BY <1>9 DEF CreateEmailVerificationToken, Answers, Away
<1>10. ASSUME NEW r \in Callers, MarkEmailVerificationTokenUsed(r) PROVE AccountInv'
  <2>1. AccountTypeOK'
    BY <1>10, CallerKnows DEF MarkEmailVerificationTokenUsed, Proceeds
  <2>2. RowsWhole'
    BY <1>10, CallerKnows DEF MarkEmailVerificationTokenUsed, Proceeds
  <2>3. NamesRows'
    BY <1>10, CallerKnows DEF MarkEmailVerificationTokenUsed, Proceeds
  <2> QED
    BY <2>1, <2>2, <2>3
<1>11. ASSUME NEW r \in Callers, VerifyCustomerEmail(r) PROVE AccountInv'
  <2>1. AccountTypeOK'
    <3>1. RowsTyped'
      BY <1>11, FlagWritten DEF VerifyCustomerEmail
    <3> QED
      BY <1>11, <3>1, CallerKnows DEF VerifyCustomerEmail, Answers, Away, RowsTyped, RowSet
  <2>2. RowsWhole'
    BY <1>11, CallerKnows DEF VerifyCustomerEmail, Answers, Away
  <2>3. NamesRows'
    BY <1>11, CallerKnows DEF VerifyCustomerEmail, Answers, Away
  <2> QED
    BY <2>1, <2>2, <2>3
<1>12. ASSUME NEW r \in Callers, UpdateCustomerEmail(r) PROVE AccountInv'
  <2>1. AccountTypeOK'
    <3>1. CASE UNCHANGED <<customer, changeToken>>
      BY <1>12, <3>1 DEF UpdateCustomerEmail, Answers, Away
    <3>2. CASE /\ GetCustomerByEmail(caller[r].email) \in {NULL, caller[r].customer}
               /\ customer' = [customer EXCEPT ![caller[r].customer].email = caller[r].email]
               /\ changeToken' = [changeToken EXCEPT ![caller[r].token].used = TRUE]
      <4>1. RowsTyped'
        <5>1. caller[r].email \in Emails
          BY <1>12, CallerKnows DEF UpdateCustomerEmail
        <5> QED
          BY <3>2, <5>1, EmailWritten
      <4>2. changeToken' \in [ChangeTokens -> TokenSet \cup {NULL}]
        BY <1>12, <3>2, TokenUsed DEF UpdateCustomerEmail
      <4> QED
        BY <1>12, <4>1, <4>2 DEF UpdateCustomerEmail, Answers, Away, RowsTyped, RowSet,
           TokenSet
    <3> QED
      BY <1>12, <3>1, <3>2 DEF UpdateCustomerEmail
  <2>2. RowsWhole'
    BY <1>12, LookUp, CallerKnows DEF UpdateCustomerEmail, Answers, Away
  <2>3. NamesRows'
    <3>1. caller[r].email \in Emails
      BY <1>12, CallerKnows DEF UpdateCustomerEmail
    <3>2. \A c \in Customers : HasRow(c) => HasRow(c)'
      BY <1>12, <3>1 DEF UpdateCustomerEmail
    <3>3. \A t \in ChangeTokens :
            /\ changeToken'[t] # NULL <=> changeToken[t] # NULL
            /\ changeToken[t] # NULL => changeToken'[t].customer = changeToken[t].customer
      BY <1>12, TokenUsed DEF UpdateCustomerEmail
    <3> QED
      BY <1>12, <3>2, <3>3 DEF UpdateCustomerEmail, Answers, Away
  <2> QED
    BY <2>1, <2>2, <2>3
<1>13. ASSUME NEW r \in Callers, FindByEmail(r) PROVE AccountInv'
  <2>1. AccountTypeOK'
    <3>1. /\ GetCustomerByEmail(caller[r].email) \in Customers \cup {NULL}
          /\ caller[r].email \in Emails
      BY <1>13, LookUp, CallerKnows DEF FindByEmail
    <3>2. \/ caller' = [caller EXCEPT ![r] = Away]
          \/ \E at \in Steps : caller' = [caller EXCEPT ![r] =
               [at |-> at, customer |-> GetCustomerByEmail(caller[r].email),
                email |-> caller[r].email, token |-> NULL]]
      BY <1>13 DEF FindByEmail, Proceeds, Answers
    <3>3. caller' \in [Callers -> {Away} \cup
            [at : Steps, customer : Customers \cup {NULL}, email : Emails,
             token : ChangeTokens \cup {NULL}]]
      BY <3>1, <3>2
    <3> QED
      BY <1>13, <3>3 DEF FindByEmail
  <2>2. RowsWhole'
    BY <1>13, LookUp, CallerKnows DEF FindByEmail, Proceeds, Answers, Away
  <2>3. NamesRows'
    <3>1. caller[r].email \in Emails
      BY <1>13, CallerKnows DEF FindByEmail
    <3>2. GetCustomerByEmail(caller[r].email) # NULL => HasRow(GetCustomerByEmail(caller[r].email))
      BY <3>1, LookUp
    <3> QED
      BY <1>13, <3>2 DEF FindByEmail, Proceeds, Answers, Away
  <2> QED
    BY <2>1, <2>2, <2>3
<1>14. ASSUME NEW r \in Callers, NEW c \in Customers, CreateOAuthCustomer(r, c) PROVE AccountInv'
  <2>e. caller[r].email \in Emails
    BY <1>14, CallerKnows DEF CreateOAuthCustomer
  <2>cases. Creates(r, c) \/ UNCHANGED <<customer, social, proven, signedIn>>
    BY <1>14 DEF CreateOAuthCustomer, Creates
  <2>1. AccountTypeOK'
    <3>1. CASE UNCHANGED <<customer, social, proven, signedIn>>
      BY <1>14, <3>1, CallerKnows DEF CreateOAuthCustomer, SignsIn, Proceeds, Answers, Away
    <3>2. CASE Creates(r, c)
      <4>1. RowsTyped'
        BY <2>e, <3>2, CreatesTyped
      <4>2. /\ social' \in [Emails -> Customers \cup {NULL}]
            /\ proven' \in [Customers -> SUBSET Emails]
            /\ signedIn' \in [Emails -> SUBSET Customers]
            /\ caller' \in [Callers -> {Away} \cup
                 [at : Steps, customer : Customers \cup {NULL}, email : Emails,
                  token : ChangeTokens \cup {NULL}]]
        BY <2>e, <3>2 DEF Creates, Proves, SignsIn, Answers, Away
      <4> QED
        BY <3>2, <4>1, <4>2 DEF Creates, RowsTyped, RowSet
    <3> QED
      BY <3>1, <3>2, <2>cases
  <2>2. RowsWhole'
    <3>1. CASE Creates(r, c)
      BY <2>e, <3>1 DEF Creates, NoRow
    <3> QED
      BY <3>1, <2>cases DEF NoRow
  <2>3. NamesRows'
    <3>1. \A d \in Customers : HasRow(d) => HasRow(d)'
      BY <2>e, <2>cases DEF Creates, NoRow
    <3>2. CASE Creates(r, c)
      BY <3>1, <3>2 DEF Creates, SignsIn, Answers, Away
    <3>3. CASE UNCHANGED <<customer, social, proven, signedIn>>
      BY SMTT(30), <1>14, <3>3 DEF CreateOAuthCustomer, SignsIn, Proceeds, Answers, Away
    <3> QED
      BY <3>2, <3>3, <2>cases
  <2> QED
    BY <2>1, <2>2, <2>3
<1>15. ASSUME NEW r \in Callers, CreateSocialAccount(r) PROVE AccountInv'
  <2>e. caller[r].email \in Emails /\ caller[r].customer \in Customers
    BY <1>15, CallerKnows DEF CreateSocialAccount
  <2>1. AccountTypeOK'
    <3>1. social' \in [Emails -> Customers \cup {NULL}]
      BY <1>15, <2>e DEF CreateSocialAccount
    <3>2. proven' \in [Customers -> SUBSET Emails]
      BY <1>15, <2>e DEF CreateSocialAccount, Proves
    <3>3. signedIn' \in [Emails -> SUBSET Customers]
      BY <1>15, <2>e DEF CreateSocialAccount, SignsIn
    <3>4. caller' = [caller EXCEPT ![r] = Away]
      BY <1>15 DEF CreateSocialAccount, SignsIn, Answers
    <3> QED
      BY <1>15, <3>1, <3>2, <3>3, <3>4 DEF CreateSocialAccount
  <2>2. RowsWhole'
    BY <1>15, CallerKnows DEF CreateSocialAccount, Proves, SignsIn, Answers, Away
  <2>3. NamesRows'
    BY <1>15 DEF CreateSocialAccount, SignsIn, Answers, Away
  <2> QED
    BY <2>1, <2>2, <2>3
<1>16. ASSUME NEW r \in Callers, CallerFails(r) PROVE AccountInv'
  BY <1>16 DEF CallerFails, Answers, Away
<1>17. CASE UNCHANGED accountVars
  BY <1>17 DEF accountVars
<1> QED
  BY <1>1, <1>2, <1>3, <1>4, <1>5, <1>6, <1>7, <1>8, <1>9, <1>10, <1>11, <1>12, <1>13, <1>14,
     <1>15, <1>16, <1>17 DEF AccountNext

LEMMA AccountInvHolds == AccountSpec => []AccountInv
  BY AccountInitInv, AccountStepInv, PTL DEF AccountSpec

\* Rows, links, tokens and requests have the declared shapes.
THEOREM AccountTypeCorrect == AccountSpec => []AccountTypeOK
<1>1. AccountInv => AccountTypeOK
  BY DEF AccountInv
<1> QED
  BY <1>1, AccountInvHolds, PTL

-----------------------------------------------------------------------------
(* A link is never taken back, and a Google account is signed in as nobody *)
(* before it is linked.                                                    *)

LEMMA LinksStand ==
  ASSUME AccountInv, [AccountNext]_accountVars
  PROVE  \A g \in Emails : social[g] # NULL => social'[g] = social[g]
<1>1. CASE UNCHANGED social
  BY <1>1
<1>2. ASSUME NEW r \in Callers, NEW c \in Customers, CreateOAuthCustomer(r, c)
      PROVE  \A g \in Emails : social[g] # NULL => social'[g] = social[g]
  BY <1>2 DEF CreateOAuthCustomer, AccountInv, AccountTypeOK
<1>3. ASSUME NEW r \in Callers, CreateSocialAccount(r)
      PROVE  \A g \in Emails : social[g] # NULL => social'[g] = social[g]
  BY <1>3 DEF CreateSocialAccount, AccountInv, AccountTypeOK
<1>4. \/ UNCHANGED social
      \/ \E r \in Callers : CreateSocialAccount(r) \/ \E c \in Customers : CreateOAuthCustomer(r, c)
  BY DEF AccountNext, accountVars, GetsPassword, Register, RequestEmailChange, ResendVerification,
     GetSocialAccount, Verify, CreateEmailChangeToken, VerifyEmailChange,
     CreateEmailVerificationToken, MarkEmailVerificationTokenUsed, VerifyCustomerEmail,
     UpdateCustomerEmail, FindByEmail, CallerFails
<1> QED
  BY <1>1, <1>2, <1>3, <1>4

LEMMA SignInsStep ==
  ASSUME AccountInv, OneCustomerPerGoogle, [AccountNext]_accountVars
  PROVE  OneCustomerPerGoogle'
<1>1. CASE UNCHANGED signedIn
  <2>1. \A g \in Emails : social[g] = NULL => signedIn[g] = {}
    BY AccountAssumption DEF OneCustomerPerGoogle, AccountInv, AccountTypeOK
  <2> QED
    BY <1>1, <2>1, LinksStand DEF OneCustomerPerGoogle
<1>2. ASSUME NEW r \in Callers, NEW c \in Customers, CreateOAuthCustomer(r, c)
      PROVE  OneCustomerPerGoogle'
  <2>1. CASE Creates(r, c)
    <3>1. caller[r].email \in Emails
      BY <1>2, CallerKnows DEF CreateOAuthCustomer, AccountInv, Steps
    <3>2. signedIn[caller[r].email] = {}
      BY <2>1, <3>1, AccountAssumption DEF Creates, OneCustomerPerGoogle, AccountInv, AccountTypeOK
    <3>3. \A g \in Emails : /\ social'[g] = IF g = caller[r].email THEN c ELSE social[g]
                            /\ signedIn'[g] = IF g = caller[r].email THEN {c} ELSE signedIn[g]
      BY <2>1, <3>1, <3>2 DEF Creates, SignsIn, AccountInv, AccountTypeOK
    <3> QED
      BY <3>3 DEF OneCustomerPerGoogle
  <2>2. CASE UNCHANGED signedIn
    BY <1>1, <2>2
  <2> QED
    BY <1>2, <2>1, <2>2 DEF CreateOAuthCustomer, Creates
<1>3. ASSUME NEW r \in Callers, CreateSocialAccount(r) PROVE OneCustomerPerGoogle'
  <2> DEFINE g == caller[r].email
             c == caller[r].customer
  <2>1. g \in Emails /\ c \in Customers
    BY <1>3, CallerKnows DEF CreateSocialAccount, AccountInv, NamesRows, HasRow, Steps
  <2>2. CASE social[g] = NULL
    <3>1. signedIn[g] = {}
      BY <2>1, <2>2, AccountAssumption DEF OneCustomerPerGoogle, AccountInv, AccountTypeOK
    <3>2. \A h \in Emails : /\ social'[h] = IF h = g THEN c ELSE social[h]
                            /\ signedIn'[h] = IF h = g THEN {c} ELSE signedIn[h]
      BY <1>3, <2>1, <2>2, <3>1 DEF CreateSocialAccount, SignsIn, AccountInv, AccountTypeOK
    <3> QED
      BY <3>2 DEF OneCustomerPerGoogle
  <2>3. CASE social[g] # NULL
    BY <1>1, <1>3, <2>3 DEF CreateSocialAccount
  <2> QED
    BY <2>2, <2>3
<1>4. ASSUME NEW r \in Callers, NEW g \in Emails, GetSocialAccount(r, g)
      PROVE  OneCustomerPerGoogle'
  BY <1>4 DEF GetSocialAccount, SignsIn, OneCustomerPerGoogle, AccountInv, AccountTypeOK
<1>5. \/ UNCHANGED signedIn
      \/ \E r \in Callers : \/ CreateSocialAccount(r)
                            \/ \E c \in Customers : CreateOAuthCustomer(r, c)
                            \/ \E g \in Emails : GetSocialAccount(r, g)
  BY DEF AccountNext, accountVars, GetsPassword, Register, RequestEmailChange, ResendVerification,
     Verify, CreateEmailChangeToken, VerifyEmailChange,
     CreateEmailVerificationToken, MarkEmailVerificationTokenUsed, VerifyCustomerEmail,
     UpdateCustomerEmail, FindByEmail, CallerFails
<1> QED
  BY <1>1, <1>2, <1>3, <1>4, <1>5

\* However many sign-ins of one Google account overlap, and whoever has its
\* address meanwhile, they all come out as the customer it is linked to.
THEOREM OneCustomerPerGoogleHolds == AccountSpec => []OneCustomerPerGoogle
<1>1. AccountInit => OneCustomerPerGoogle
  BY DEF AccountInit, OneCustomerPerGoogle
<1>2. AccountInv /\ OneCustomerPerGoogle /\ [AccountNext]_accountVars => OneCustomerPerGoogle'
  BY SignInsStep
<1> QED
  BY <1>1, <1>2, AccountInvHolds, PTL DEF AccountSpec

-----------------------------------------------------------------------------
(* What a row's owner can sign in with stays.                              *)

Reachable(c) == customer[c].password \/ \E g \in Emails : social[g] = c

\* A row that is new has a password or its Google account.
LEMMA RowsBegin ==
  ASSUME AccountInv, [AccountNext]_accountVars, NEW c \in Customers,
         customer[c].email = NULL, customer'[c].email # NULL
  PROVE  Reachable(c)'
<1> USE DEF AccountInv, AccountTypeOK
<1>1. ASSUME NEW r \in Callers, NEW d \in Customers, NEW e \in Emails, Register(r, d, e)
      PROVE  Reachable(c)'
  BY <1>1 DEF Register, Reachable
<1>2. ASSUME NEW r \in Callers, NEW d \in Customers, CreateOAuthCustomer(r, d)
      PROVE  Reachable(c)'
  <2>1. caller[r].email \in Emails
    BY <1>2, CallerKnows DEF CreateOAuthCustomer, Steps
  <2>2. Creates(r, d) /\ c = d
    BY <1>2 DEF CreateOAuthCustomer, Creates
  <2> QED
    BY <2>1, <2>2 DEF Creates, Reachable
<1>3. ASSUME NEW d \in Customers, GetsPassword(d) PROVE Reachable(c)'
  BY <1>3 DEF GetsPassword
<1>4. ASSUME NEW r \in Callers, VerifyCustomerEmail(r) PROVE Reachable(c)'
  BY <1>4 DEF VerifyCustomerEmail
<1>5. ASSUME NEW r \in Callers, UpdateCustomerEmail(r) PROVE Reachable(c)'
  <2>1. HasRow(caller[r].customer)
    BY <1>5 DEF UpdateCustomerEmail, NamesRows
  <2> QED
    BY <1>5, <2>1 DEF UpdateCustomerEmail, HasRow
<1>6. \/ UNCHANGED customer
      \/ \E d \in Customers : GetsPassword(d)
      \/ \E r \in Callers : \/ VerifyCustomerEmail(r) \/ UpdateCustomerEmail(r)
                            \/ \E d \in Customers : CreateOAuthCustomer(r, d)
                            \/ \E d \in Customers, e \in Emails : Register(r, d, e)
  BY DEF AccountNext, accountVars, RequestEmailChange, ResendVerification, GetSocialAccount,
     Verify, CreateEmailChangeToken, VerifyEmailChange, CreateEmailVerificationToken,
     MarkEmailVerificationTokenUsed, FindByEmail, CreateSocialAccount, CallerFails
<1> QED
  BY <1>1, <1>2, <1>3, <1>4, <1>5, <1>6

LEMMA PasswordsStand ==
  ASSUME AccountInv, [AccountNext]_accountVars, NEW c \in Customers, customer[c].password
  PROVE  customer'[c].password
<1> USE DEF AccountInv, AccountTypeOK
<1>1. ASSUME NEW r \in Callers, NEW d \in Customers, NEW e \in Emails, Register(r, d, e)
      PROVE  customer'[c].password
  BY <1>1 DEF Register
<1>2. ASSUME NEW r \in Callers, NEW d \in Customers, CreateOAuthCustomer(r, d)
      PROVE  customer'[c].password
  BY <1>2 DEF CreateOAuthCustomer, NoRow
<1>3. ASSUME NEW d \in Customers, GetsPassword(d) PROVE customer'[c].password
  BY <1>3 DEF GetsPassword
<1>4. ASSUME NEW r \in Callers, VerifyCustomerEmail(r) PROVE customer'[c].password
  BY <1>4 DEF VerifyCustomerEmail
<1>5. ASSUME NEW r \in Callers, UpdateCustomerEmail(r) PROVE customer'[c].password
  BY <1>5 DEF UpdateCustomerEmail
<1>6. \/ UNCHANGED customer
      \/ \E d \in Customers : GetsPassword(d)
      \/ \E r \in Callers : \/ VerifyCustomerEmail(r) \/ UpdateCustomerEmail(r)
                            \/ \E d \in Customers : CreateOAuthCustomer(r, d)
                            \/ \E d \in Customers, e \in Emails : Register(r, d, e)
  BY DEF AccountNext, accountVars, RequestEmailChange, ResendVerification, GetSocialAccount,
     Verify, CreateEmailChangeToken, VerifyEmailChange, CreateEmailVerificationToken,
     MarkEmailVerificationTokenUsed, FindByEmail, CreateSocialAccount, CallerFails
<1> QED
  BY <1>1, <1>2, <1>3, <1>4, <1>5, <1>6

LEMMA ReachableStep ==
  ASSUME AccountInv, EveryAccountReachable, [AccountNext]_accountVars
  PROVE  EveryAccountReachable'
<1> SUFFICES ASSUME NEW c \in Customers, customer'[c].email # NULL PROVE Reachable(c)'
  BY DEF EveryAccountReachable, Reachable
<1>1. CASE customer[c].email = NULL
  BY <1>1, RowsBegin
<1>2. CASE customer[c].password
  BY <1>2, PasswordsStand DEF Reachable
<1>3. ASSUME NEW g \in Emails, social[g] = c PROVE Reachable(c)'
  BY <1>3, LinksStand, AccountAssumption DEF Reachable
<1> QED
  BY <1>1, <1>2, <1>3 DEF EveryAccountReachable, Reachable

\* Wherever a registration or a first sign-in stops, no row remains that nobody
\* can sign in to.
THEOREM EveryAccountReachableHolds == AccountSpec => []EveryAccountReachable
<1>1. AccountInit => EveryAccountReachable
  <2>1. AccountInit => \A c \in Customers : customer[c].email = NULL
    BY DEF AccountInit, NoRow
  <2> QED
    BY <2>1 DEF EveryAccountReachable
<1>2. AccountInv /\ EveryAccountReachable /\ [AccountNext]_accountVars => EveryAccountReachable'
  BY ReachableStep
<1> QED
  BY <1>1, <1>2, AccountInvHolds, PTL DEF AccountSpec

-----------------------------------------------------------------------------
(* A token may be older than the address its customer has now, but then    *)
(* that address has been proven to enter it.                               *)

Owns(c) == customer[c].email \in proven[c]

SentTo(c, e) == customer[c].email = e \/ Owns(c)

OwnersInv ==
  /\ VerifiedOwnsEmail
  /\ \A r \in Callers : /\ caller[r].at = "mail" => SentTo(caller[r].customer, caller[r].email)
                        /\ caller[r].at \in {"mark", "verify"} => Owns(caller[r].customer)
                        /\ caller[r].at = "change" =>
                             caller[r].email \in proven[caller[r].customer]
  /\ \A t \in verifyTokens : SentTo(t.customer, t.email)

\* What has been proven stays so, and only a proven address replaces one.
LEMMA ProofsStand ==
  ASSUME AccountInv, OwnersInv, [AccountNext]_accountVars, NEW c \in Customers
  PROVE  /\ proven[c] \subseteq proven'[c]
         /\ HasRow(c) => customer'[c].email \in {customer[c].email} \cup proven[c]
<1> USE DEF AccountInv, AccountTypeOK
<1> DEFINE Stand == /\ proven[c] \subseteq proven'[c]
                    /\ HasRow(c) => customer'[c].email \in {customer[c].email} \cup proven[c]
<1>1. ASSUME NEW r \in Callers, NEW d \in Customers, NEW e \in Emails, Register(r, d, e)
      PROVE  Stand
  BY <1>1 DEF Register, HasRow, NoRow
<1>2. ASSUME NEW r \in Callers, NEW d \in Customers, CreateOAuthCustomer(r, d)
      PROVE  Stand
  BY <1>2 DEF CreateOAuthCustomer, NoRow, HasRow, Proves
<1>3. ASSUME NEW d \in Customers, GetsPassword(d) PROVE Stand
  BY <1>3 DEF GetsPassword
<1>4. ASSUME NEW r \in Callers, VerifyCustomerEmail(r) PROVE Stand
  BY <1>4 DEF VerifyCustomerEmail
<1>5. ASSUME NEW r \in Callers, UpdateCustomerEmail(r) PROVE Stand
  BY <1>5 DEF UpdateCustomerEmail, OwnersInv
<1>6. ASSUME UNCHANGED customer, UNCHANGED proven PROVE Stand
  BY <1>6
<1>7. ASSUME NEW r \in Callers, NEW t \in verifyTokens, Verify(r, t) PROVE Stand
  BY <1>7 DEF Verify, Proves
<1>8. ASSUME NEW r \in Callers, NEW t \in ChangeTokens, VerifyEmailChange(r, t) PROVE Stand
  BY <1>8 DEF VerifyEmailChange, Proves
<1>9. ASSUME NEW r \in Callers, CreateSocialAccount(r) PROVE Stand
  BY <1>9 DEF CreateSocialAccount, Proves
<1>10. \/ UNCHANGED <<customer, proven>>
       \/ \E d \in Customers : GetsPassword(d)
       \/ \E r \in Callers : \/ VerifyCustomerEmail(r) \/ UpdateCustomerEmail(r)
                             \/ CreateSocialAccount(r)
                             \/ \E d \in Customers : CreateOAuthCustomer(r, d)
                             \/ \E d \in Customers, e \in Emails : Register(r, d, e)
                             \/ \E t \in verifyTokens : Verify(r, t)
                             \/ \E t \in ChangeTokens : VerifyEmailChange(r, t)
  BY DEF AccountNext, accountVars, RequestEmailChange, ResendVerification, GetSocialAccount,
     CreateEmailChangeToken, CreateEmailVerificationToken, MarkEmailVerificationTokenUsed,
     FindByEmail, CallerFails
<1> HIDE DEF Stand
<1>11. Stand
  BY <1>1, <1>2, <1>3, <1>4, <1>5, <1>6, <1>7, <1>8, <1>9, <1>10
<1> QED
  BY <1>11 DEF Stand

\* So what is remembered of who has a row stays true.
LEMMA OwnersStand ==
  ASSUME AccountInv, OwnersInv, [AccountNext]_accountVars, NEW c, HasRow(c)
  PROVE  /\ Owns(c) => Owns(c)'
         /\ \A e : SentTo(c, e) => SentTo(c, e)'
  BY ProofsStand DEF HasRow, Owns, SentTo

\* A request is over, or at a step that says nothing of an address.
Over(r) ==
  \/ caller' = [caller EXCEPT ![r] = Away]
  \/ \E at \in {"mailChange", "byEmail", "create", "again", "link"} : \E c, e :
       caller' = [caller EXCEPT ![r] = [at |-> at, customer |-> c, email |-> e, token |-> NULL]]

LEMMA OwnersStep ==
  ASSUME AccountInv, OwnersInv, [AccountNext]_accountVars
  PROVE  OwnersInv'
<1> USE DEF AccountInv, AccountTypeOK
<1>1. ASSUME NEW c \in Customers, customer'[c].verified PROVE Owns(c)'
  <2>1. CASE customer[c].verified
    <3>1. HasRow(c) /\ Owns(c)
      BY <2>1 DEF RowsWhole, NoRow, HasRow, OwnersInv, VerifiedOwnsEmail, Owns
    <3> QED
      BY <3>1, OwnersStand
  <2>2. ASSUME NEW r \in Callers, VerifyCustomerEmail(r), ~customer[c].verified PROVE Owns(c)'
    <3>1. c = caller[r].customer
      BY <1>1, <2>2 DEF VerifyCustomerEmail
    <3>2. HasRow(c) /\ Owns(c)
      BY <2>2, <3>1 DEF VerifyCustomerEmail, NamesRows, OwnersInv
    <3> QED
      BY <3>2, OwnersStand
  <2>3. ASSUME NEW r \in Callers, NEW d \in Customers, CreateOAuthCustomer(r, d),
               ~customer[c].verified
        PROVE  Owns(c)'
    <3>1. c = d /\ Creates(r, d)
      BY <1>1, <2>3 DEF CreateOAuthCustomer, Creates
    <3>2. caller[r].email \in Emails
      BY <2>3, CallerKnows DEF CreateOAuthCustomer, Steps
    <3> QED
      BY <3>1, <3>2 DEF Creates, Proves, Owns
  <2>4. \/ customer'[c].verified = customer[c].verified
        \/ \E r \in Callers :
             VerifyCustomerEmail(r) \/ \E d \in Customers : CreateOAuthCustomer(r, d)
    <3>1. ASSUME NEW d \in Customers, GetsPassword(d)
          PROVE  customer'[c].verified = customer[c].verified
      BY <3>1 DEF GetsPassword
    <3>2. ASSUME NEW r \in Callers, UpdateCustomerEmail(r)
          PROVE  customer'[c].verified = customer[c].verified
      BY <3>2 DEF UpdateCustomerEmail
    <3>3. ASSUME NEW r \in Callers, NEW d \in Customers, NEW e \in Emails, Register(r, d, e)
          PROVE  customer'[c].verified = customer[c].verified
      <4>1. CASE c = d
        <5>1. customer[c].verified = FALSE /\ customer'[c].verified = FALSE
          BY <3>3, <4>1 DEF Register, NoRow
        <5> QED
          BY <5>1
      <4>2. CASE c # d
        BY <3>3, <4>2 DEF Register
      <4> QED
        BY <4>1, <4>2
    <3>4. \/ UNCHANGED customer
          \/ \E d \in Customers : GetsPassword(d)
          \/ \E r \in Callers : \/ VerifyCustomerEmail(r) \/ UpdateCustomerEmail(r)
                                \/ \E d \in Customers : CreateOAuthCustomer(r, d)
                                \/ \E d \in Customers, e \in Emails : Register(r, d, e)
      BY DEF AccountNext, accountVars, RequestEmailChange, ResendVerification, GetSocialAccount,
         Verify, CreateEmailChangeToken, VerifyEmailChange, CreateEmailVerificationToken,
         MarkEmailVerificationTokenUsed, FindByEmail, CreateSocialAccount, CallerFails
    <3> QED
      BY <3>1, <3>2, <3>3, <3>4
  <2> QED
    BY <1>1, <2>1, <2>2, <2>3, <2>4
<1>2. ASSUME NEW q \in Callers, NEW x, x = caller'[q]
      PROVE  /\ x.at = "mail" => SentTo(x.customer, x.email)'
             /\ x.at \in {"mark", "verify"} => Owns(x.customer)'
             /\ x.at = "change" => x.email \in proven'[x.customer]
  <2>1. CASE caller'[q] = caller[q]
    <3>1. x.at \in {"mail", "mark", "verify", "change"} => HasRow(x.customer)
      BY <1>2, <2>1 DEF NamesRows
    <3> QED
      BY <1>2, <2>1, <3>1, OwnersStand, ProofsStand DEF OwnersInv, HasRow
  <2>2. ASSUME NEW c \in Customers, NEW e \in Emails, Register(q, c, e)
        PROVE  SentTo(x.customer, x.email)' /\ x.at = "mail"
    BY <1>2, <2>2 DEF Register, Proceeds, SentTo
  <2>3. ASSUME NEW e \in Emails, ResendVerification(q, e)
        PROVE  SentTo(x.customer, x.email)' /\ x.at = "mail"
    <3>1. customer[GetCustomerByEmail(e)].email = e
      BY <2>3, LookUp DEF ResendVerification
    <3> QED
      BY <1>2, <2>3, <3>1 DEF ResendVerification, Proceeds, SentTo
  <2>4. ASSUME NEW t \in verifyTokens, Verify(q, t) PROVE Owns(x.customer)' /\ x.at = "mark"
    <3>1. x.customer = t.customer /\ x.at = "mark"
      BY <1>2, <2>4 DEF Verify, Proceeds
    <3>2. t.customer \in Customers /\ SentTo(t.customer, t.email)
      BY DEF OwnersInv
    <3>3. UNCHANGED customer /\ proven'[t.customer] = proven[t.customer] \cup {t.email}
      BY <2>4, <3>2 DEF Verify, Proves
    <3> QED
      BY <3>1, <3>2, <3>3 DEF SentTo, Owns
  <2>5. ASSUME MarkEmailVerificationTokenUsed(q) PROVE Owns(x.customer)' /\ x.at = "verify"
    <3>1. x.customer = caller[q].customer /\ x.at = "verify"
      BY <1>2, <2>5 DEF MarkEmailVerificationTokenUsed, Proceeds
    <3>2. HasRow(x.customer) /\ Owns(x.customer)
      BY <2>5, <3>1 DEF MarkEmailVerificationTokenUsed, NamesRows, OwnersInv
    <3> QED
      BY <3>1, <3>2, OwnersStand
  <2>6. ASSUME NEW t \in ChangeTokens, VerifyEmailChange(q, t)
        PROVE  x.email \in proven'[x.customer] /\ x.at = "change"
    <3>1. x.customer = changeToken[t].customer /\ x.email = changeToken[t].email /\ x.at = "change"
      BY <1>2, <2>6 DEF VerifyEmailChange, Proceeds
    <3>2. changeToken[t].customer \in Customers
      BY <2>6 DEF VerifyEmailChange, NamesRows, HasRow
    <3> QED
      BY <2>6, <3>1, <3>2 DEF VerifyEmailChange, Proves
  <2>7. \/ caller'[q] = caller[q]
        \/ \E c \in Customers, e \in Emails : Register(q, c, e)
        \/ \E e \in Emails : ResendVerification(q, e)
        \/ \E t \in verifyTokens : Verify(q, t)
        \/ \E t \in ChangeTokens : VerifyEmailChange(q, t)
        \/ MarkEmailVerificationTokenUsed(q)
        \/ caller'[q].at \notin {"mail", "mark", "verify", "change"}
    <3>1. ASSUME NEW r \in Callers,
                 \/ \E c \in Customers, e \in Emails : Register(r, c, e) /\ r # q
                 \/ \E e \in Emails : ResendVerification(r, e) /\ r # q
                 \/ \E t \in verifyTokens : Verify(r, t) /\ r # q
                 \/ \E t \in ChangeTokens : VerifyEmailChange(r, t) /\ r # q
                 \/ MarkEmailVerificationTokenUsed(r) /\ r # q
          PROVE  caller'[q] = caller[q]
      BY <3>1 DEF Register, ResendVerification, Verify, VerifyEmailChange,
         MarkEmailVerificationTokenUsed, Proceeds
    <3>2. ASSUME NEW r \in Callers, Over(r) PROVE
                 caller'[q] = caller[q] \/ caller'[q].at \notin {"mail", "mark", "verify", "change"}
      BY <3>2 DEF Over, Away
    <3>3. ASSUME NEW r \in Callers,
                 \/ \E c \in Customers, e \in Emails : RequestEmailChange(r, c, e)
                 \/ \E e \in Emails : GetSocialAccount(r, e)
                 \/ \E t \in ChangeTokens : CreateEmailChangeToken(r, t)
                 \/ CreateEmailVerificationToken(r) \/ VerifyCustomerEmail(r)
                 \/ UpdateCustomerEmail(r) \/ FindByEmail(r) \/ CreateSocialAccount(r)
                 \/ \E c \in Customers : CreateOAuthCustomer(r, c)
                 \/ CallerFails(r)
          PROVE  Over(r)
      BY <3>3 DEF Over, RequestEmailChange, GetSocialAccount, CreateEmailChangeToken,
         CreateEmailVerificationToken, VerifyCustomerEmail, UpdateCustomerEmail, FindByEmail,
         CreateSocialAccount, CreateOAuthCustomer, CallerFails, Proceeds, Answers, SignsIn
    <3>4. ASSUME NEW c \in Customers, GetsPassword(c) PROVE caller'[q] = caller[q]
      BY <3>4 DEF GetsPassword
    <3> QED
      BY <3>1, <3>2, <3>3, <3>4 DEF AccountNext, accountVars
  <2> QED
    BY <1>2, <2>1, <2>2, <2>3, <2>4, <2>5, <2>6, <2>7
<1>3. ASSUME NEW t \in verifyTokens' PROVE SentTo(t.customer, t.email)'
  <2>1. CASE t \in verifyTokens
    BY <2>1, OwnersStand DEF OwnersInv, NamesRows
  <2>2. ASSUME NEW r \in Callers, CreateEmailVerificationToken(r), t \notin verifyTokens
        PROVE  SentTo(t.customer, t.email)'
    <3>1. t.customer = caller[r].customer /\ t.email = caller[r].email
      BY <2>2 DEF CreateEmailVerificationToken
    <3>2. HasRow(t.customer) /\ SentTo(t.customer, t.email)
      BY <2>2, <3>1 DEF CreateEmailVerificationToken, NamesRows, OwnersInv
    <3> QED
      BY <3>2, OwnersStand
  <2>3. \/ verifyTokens' \subseteq verifyTokens
        \/ \E r \in Callers : CreateEmailVerificationToken(r)
    BY ZenonT(40) DEF AccountNext, accountVars, GetsPassword, Register, RequestEmailChange,
       ResendVerification, GetSocialAccount, Verify, CreateEmailChangeToken, VerifyEmailChange,
       MarkEmailVerificationTokenUsed, VerifyCustomerEmail, UpdateCustomerEmail, FindByEmail,
       CreateOAuthCustomer, CreateSocialAccount, CallerFails
  <2> QED
    BY <2>1, <2>2, <2>3
<1>4. VerifiedOwnsEmail'
  BY <1>1 DEF VerifiedOwnsEmail, Owns
<1>5. \A r \in Callers :
        (/\ caller[r].at = "mail" => SentTo(caller[r].customer, caller[r].email)
         /\ caller[r].at \in {"mark", "verify"} => Owns(caller[r].customer)
         /\ caller[r].at = "change" => caller[r].email \in proven[caller[r].customer])'
  BY <1>2 DEF SentTo, Owns
<1>6. \A t \in verifyTokens' : SentTo(t.customer, t.email)'
  BY <1>3
<1> QED
  BY <1>4, <1>5, <1>6 DEF OwnersInv

\* A customer marked as verified has shown to hold the address they have, however
\* old the tokens are that are followed and whatever addresses came between.
THEOREM VerifiedOwnsEmailHolds == AccountSpec => []VerifiedOwnsEmail
<1>1. AccountInit => OwnersInv
  BY DEF AccountInit, OwnersInv, VerifiedOwnsEmail, NoRow, Away
<1>2. AccountInv /\ OwnersInv /\ [AccountNext]_accountVars => OwnersInv'
  BY OwnersStep
<1>3. OwnersInv => VerifiedOwnsEmail
  BY DEF OwnersInv
<1> QED
  BY <1>1, <1>2, <1>3, AccountInvHolds, PTL DEF AccountSpec

-----------------------------------------------------------------------------
(* Sessions *)

\* The row and the tokens: token_version counts the changes.
RowInv ==
  /\ account \in [staff : BOOLEAN, active : BOOLEAN, password : BOOLEAN, deleted : BOOLEAN]
  /\ employeeRole \in RolesOrNone
  /\ roleChanged \in BOOLEAN
  /\ tokenVersion \in 0..MaxChanges
  /\ tokenVersion = changes
  /\ access \in SUBSET [version : 0..tokenVersion, role : RolesOrNone]
  /\ refreshToken \in [RefreshTokens -> TokenStates]
  /\ resetToken \in [ResetTokens -> TokenStates]

DeviceSet ==
  {Resting} \cup [at : Stages, token : RefreshTokens \cup ResetTokens \cup {NULL},
                  version : 0..MaxChanges, seen : SUBSET RefreshTokens, role : RolesOrNone]

\* The requests: no version that one has read is ahead of the row's.
RequestInv ==
  /\ device \in [Devices -> DeviceSet]
  /\ changing \in Devices \cup {NULL}
  /\ \A d \in Devices : device[d].at = "commit" <=> changing = d
  /\ \A d \in Devices : device[d].version <= tokenVersion

SessionInv == RowInv /\ RequestInv

LEMMA SessionInvTypes == SessionInv => SessionTypeOK
  BY DEF SessionInv, RowInv, RequestInv, DeviceSet, SessionTypeOK

LEMMA SessionInitInv == SessionInit => SessionInv
<1> SUFFICES ASSUME SessionInit PROVE SessionInv
  OBVIOUS
<1>1. account \in [staff : BOOLEAN, active : BOOLEAN, password : BOOLEAN, deleted : BOOLEAN]
  <2>1. PICK hired, password \in BOOLEAN :
          account = [staff |-> hired, active |-> ~hired \/ password,
                     password |-> password, deleted |-> FALSE]
    BY DEF SessionInit
  <2>2. (~hired \/ password) \in BOOLEAN
    BY Zenon
  <2> QED
    BY <2>1, <2>2
<1>2. RowInv
  <2>1. employeeRole \in RolesOrNone
    BY DEF SessionInit, RolesOrNone
  <2>2. /\ roleChanged = FALSE /\ tokenVersion = 0 /\ changes = 0 /\ access = {}
        /\ refreshToken = [t \in RefreshTokens |-> "unused"]
        /\ resetToken = [t \in ResetTokens |-> "unused"]
    BY DEF SessionInit
  <2>3. tokenVersion \in 0..MaxChanges /\ tokenVersion = changes
    BY <2>2, SessionAssumption
  <2>4. access \in SUBSET [version : 0..tokenVersion, role : RolesOrNone]
    BY <2>2
  <2>5. /\ refreshToken \in [RefreshTokens -> TokenStates]
        /\ resetToken \in [ResetTokens -> TokenStates]
    BY <2>2 DEF TokenStates
  <2> QED
    BY <1>1, <2>1, <2>2, <2>3, <2>4, <2>5 DEF RowInv
<1>3. RequestInv
  BY SessionAssumption DEF SessionInit, RequestInv, DeviceSet, Resting
<1> QED
  BY <1>2, <1>3 DEF SessionInv

\* What a request may be, in its fields.
LEMMA DeviceFields ==
  /\ Resting \in DeviceSet /\ Resting.at = "resting" /\ Resting.version = 0
  /\ \A x \in DeviceSet :
       /\ x.token \in RefreshTokens \cup ResetTokens \cup {NULL}
       /\ x.version \in 0..MaxChanges /\ x.seen \in SUBSET RefreshTokens
       /\ x.role \in RolesOrNone
  BY SessionAssumption DEF DeviceSet, Resting, RolesOrNone

LEMMA MadeRequest ==
  ASSUME NEW a \in Stages, NEW k \in RefreshTokens \cup ResetTokens \cup {NULL},
         NEW v \in 0..MaxChanges, NEW n \in SUBSET RefreshTokens, NEW r \in RolesOrNone,
         NEW x, x = [at |-> a, token |-> k, version |-> v, seen |-> n, role |-> r]
  PROVE  x \in DeviceSet /\ x.at = a /\ x.version = v
BY DEF DeviceSet

\* A request goes on, and does not hold the row any more if it did.
LEMMA RequestStep ==
  ASSUME SessionInv, NEW d \in Devices, NEW x \in DeviceSet,
         device' = [device EXCEPT ![d] = x], x.at # "commit", x.version <= tokenVersion',
         tokenVersion' \in Nat, tokenVersion <= tokenVersion',
         changing' = IF changing = d THEN NULL ELSE changing
  PROVE  RequestInv'
<1>1. device \in [Devices -> DeviceSet] /\ tokenVersion \in Nat
  BY SessionAssumption DEF SessionInv, RowInv, RequestInv
<1>2. device' \in [Devices -> DeviceSet] /\ device'[d] = x
  BY <1>1
<1>3. \A e \in Devices \ {d} : device'[e] = device[e]
  BY <1>1
<1>4. \A e \in Devices : device'[e].version <= tokenVersion'
  <2>1. ASSUME NEW e \in Devices \ {d} PROVE device'[e].version <= tokenVersion'
    <3>1. device[e].version \in Nat /\ device[e].version <= tokenVersion
      BY <1>1, DeviceFields, SessionAssumption DEF SessionInv, RequestInv
    <3> QED
      BY <1>1, <1>3, <3>1
  <2> QED
    BY <1>2, <2>1
<1>5. \A e \in Devices : device'[e].at = "commit" <=> changing' = e
  BY <1>2, <1>3, SessionAssumption DEF SessionInv, RequestInv
<1> QED
  BY <1>2, <1>4, <1>5 DEF SessionInv, RequestInv

\* A request that only reads.
LEMMA ReadStep ==
  ASSUME SessionInv, NEW d \in Devices, NEW x \in DeviceSet,
         device' = [device EXCEPT ![d] = x], x.at # "commit", x.version <= tokenVersion,
         device[d].at # "commit",
         UNCHANGED <<rowVars, tokenVersion, changes, access, refreshToken, resetToken, changing>>
  PROVE  SessionInv'
<1>1. RowInv'
  BY DEF SessionInv, RowInv, rowVars
<1>2. RequestInv'
  BY RequestStep, SessionAssumption DEF SessionInv, RowInv, RequestInv
<1> QED
  BY <1>1, <1>2 DEF SessionInv

\* A request that writes, but not the version.
LEMMA WriteStep ==
  ASSUME SessionInv, NEW d \in Devices, NEW x \in DeviceSet,
         device' = [device EXCEPT ![d] = x], x.at # "commit", x.version <= tokenVersion,
         device[d].at # "commit", tokenVersion' = tokenVersion, changing' = changing, RowInv'
  PROVE  SessionInv'
<1>1. /\ tokenVersion' \in Nat /\ tokenVersion <= tokenVersion' /\ x.version <= tokenVersion'
      /\ changing' = IF changing = d THEN NULL ELSE changing
  BY SessionAssumption DEF SessionInv, RowInv, RequestInv
<1>2. RequestInv'
  BY <1>1, RequestStep
<1> QED
  BY <1>2 DEF SessionInv

\* A token goes from one state to another.
LEMMA TokensStep ==
  ASSUME SessionInv, UNCHANGED <<rowVars, tokenVersion, changes, access>>,
         refreshToken' \in [RefreshTokens -> TokenStates],
         resetToken' \in [ResetTokens -> TokenStates]
  PROVE  RowInv'
BY DEF SessionInv, RowInv, rowVars

\* Tokens of the versions up to one are among those up to the next.
LEMMA AccessKept ==
  ASSUME NEW v \in Nat
  PROVE  SUBSET [version : 0..v, role : RolesOrNone]
           \subseteq SUBSET [version : 0..(v + 1), role : RolesOrNone]
<1>1. 0..v \subseteq 0..(v + 1)
  OBVIOUS
<1> QED
  BY <1>1

\* A change is counted.
LEMMA CountedStep ==
  ASSUME SessionInv, tokenVersion' = tokenVersion + 1, changes' = changes + 1, changes < MaxChanges,
         account' \in [staff : BOOLEAN, active : BOOLEAN, password : BOOLEAN, deleted : BOOLEAN],
         roleChanged' = FALSE, UNCHANGED <<employeeRole, access>>,
         refreshToken' \in [RefreshTokens -> TokenStates],
         resetToken' \in [ResetTokens -> TokenStates]
  PROVE  RowInv' /\ tokenVersion' \in Nat /\ tokenVersion <= tokenVersion'
<1>1. /\ tokenVersion \in Nat /\ tokenVersion' \in 0..MaxChanges /\ tokenVersion' = changes'
      /\ tokenVersion' \in Nat /\ tokenVersion <= tokenVersion'
  BY SessionAssumption DEF SessionInv, RowInv
<1>2. access' \in SUBSET [version : 0..tokenVersion', role : RolesOrNone]
  BY <1>1, AccessKept DEF SessionInv, RowInv
<1> QED
  BY <1>1, <1>2 DEF SessionInv, RowInv

LEMMA StageNames ==
  /\ {"revoke", "leave", "reload", "issue", "send", "invite", "change", "commit"} \subseteq Stages
  /\ {"keep", "write", "outdate", "bump"} \subseteq Stages
BY DEF Stages

LEMMA SessionStepInv == SessionInv /\ [SessionNext]_sessionVars => SessionInv'
<1> SUFFICES ASSUME SessionInv, [SessionNext]_sessionVars PROVE SessionInv'
  OBVIOUS
<1>0. /\ device \in [Devices -> DeviceSet] /\ tokenVersion \in 0..MaxChanges /\ tokenVersion \in Nat
      /\ refreshToken \in [RefreshTokens -> TokenStates]
      /\ resetToken \in [ResetTokens -> TokenStates]
      /\ employeeRole \in RolesOrNone /\ NULL \in RolesOrNone
      /\ 0 \in 0..MaxChanges /\ 0 <= tokenVersion
      /\ \A d \in Devices : device[d].at = "commit" <=> changing = d
  BY SessionAssumption DEF SessionInv, RowInv, RequestInv, RolesOrNone
<1> USE DEF Moves, Takes, Rests
<1>1. ASSUME NEW d \in Devices, Login(d) PROVE SessionInv'
  <2>1. PICK x : x = [at |-> "issue", token |-> NULL, version |-> tokenVersion, seen |-> {}, role |-> employeeRole]
    OBVIOUS
  <2>2. x \in DeviceSet /\ x.at # "commit" /\ x.version <= tokenVersion
    BY <1>0, <2>1, StageNames, DeviceFields DEF DeviceSet
  <2>3. /\ device' = [device EXCEPT ![d] = x] /\ device[d].at # "commit"
        /\ UNCHANGED <<rowVars, tokenVersion, changes, access, refreshToken, resetToken, changing>>
    BY <1>1, <2>1 DEF Login, Resting
  <2> QED
    BY <2>2, <2>3, ReadStep
<1>2. ASSUME NEW d \in Devices, RevokeRefreshToken(d) PROVE SessionInv'
  <2>1. PICK x : x = IF device[d].at = "revoke"
                     THEN [at |-> "reload", token |-> NULL, version |-> 0, seen |-> {}, role |-> NULL]
                     ELSE Resting
    OBVIOUS
  <2>2. x \in DeviceSet /\ x.at # "commit" /\ x.version <= tokenVersion
    BY <1>0, <2>1, StageNames, DeviceFields DEF DeviceSet
  <2>3. /\ device' = [device EXCEPT ![d] = x] /\ device[d].at # "commit"
        /\ UNCHANGED <<rowVars, tokenVersion, changes, access, resetToken, changing>>
    BY <1>2, <2>1 DEF RevokeRefreshToken
  <2>4. refreshToken' \in [RefreshTokens -> TokenStates]
    BY <1>0, <1>2 DEF RevokeRefreshToken, TokenStates
  <2>5. RowInv'
    BY <1>0, <2>3, <2>4, TokensStep
  <2> QED
    BY <2>2, <2>3, <2>5, WriteStep
<1>3. ASSUME NEW d \in Devices, RefreshReloads(d) PROVE SessionInv'
  <2>1. PICK x : x = IF account.deleted THEN Resting
                     ELSE [at |-> "issue", token |-> NULL, version |-> tokenVersion, seen |-> {},
                           role |-> employeeRole]
    OBVIOUS
  <2>2. x \in DeviceSet /\ x.at # "commit" /\ x.version <= tokenVersion
    BY <1>0, <2>1, StageNames, DeviceFields DEF DeviceSet
  <2>3. /\ device' = [device EXCEPT ![d] = x] /\ device[d].at # "commit"
        /\ UNCHANGED <<rowVars, tokenVersion, changes, access, refreshToken, resetToken, changing>>
    BY <1>3, <2>1 DEF RefreshReloads
  <2> QED
    BY <2>2, <2>3, ReadStep
<1>4. ASSUME NEW d \in Devices, NEW t \in RefreshTokens, issueTokens(d, t) PROVE SessionInv'
  <2>1. /\ device' = [device EXCEPT ![d] = Resting] /\ device[d].at # "commit"
        /\ UNCHANGED <<rowVars, tokenVersion, changes, resetToken, changing>>
    BY <1>4 DEF issueTokens
  <2>2. device[d].version \in 0..tokenVersion /\ device[d].role \in RolesOrNone
    BY <1>0, DeviceFields DEF SessionInv, RequestInv
  <2>3. [version |-> device[d].version, role |-> device[d].role]
          \in [version : 0..tokenVersion, role : RolesOrNone]
    BY <2>2
  <2>4. access' \in SUBSET [version : 0..tokenVersion, role : RolesOrNone]
    BY <1>4, <2>3 DEF issueTokens, SessionInv, RowInv
  <2>5. refreshToken' \in [RefreshTokens -> TokenStates]
    BY <1>0, <1>4 DEF issueTokens, TokenStates
  <2>6. RowInv'
    BY <2>1, <2>4, <2>5 DEF SessionInv, RowInv, rowVars
  <2> QED
    BY <1>0, <2>1, <2>6, WriteStep, DeviceFields
<1>5. ASSUME NEW d \in Devices, NEW t \in RefreshTokens, Refresh(d, t) \/ Logout(d, t)
      PROVE  SessionInv'
  <2>1. PICK a \in {"revoke", "leave"} :
          device' = [device EXCEPT ![d] =
            [at |-> a, token |-> t, version |-> 0, seen |-> {}, role |-> NULL]]
    BY <1>5 DEF Refresh, Logout
  <2>2. PICK x : x = [at |-> a, token |-> t, version |-> 0, seen |-> {}, role |-> NULL]
    OBVIOUS
  <2>3. x \in DeviceSet /\ x.at # "commit" /\ x.version <= tokenVersion
    BY <1>0, <2>2, StageNames, DeviceFields DEF DeviceSet
  <2>4. /\ device[d].at # "commit"
        /\ UNCHANGED <<rowVars, tokenVersion, changes, access, refreshToken, resetToken, changing>>
    BY <1>5 DEF Refresh, Logout, Resting
  <2> QED
    BY <2>1, <2>2, <2>3, <2>4, ReadStep
<1>6. ASSUME NEW d \in Devices, ForgotPassword(d) \/ ResendInvite(d) PROVE SessionInv'
  <2>1. PICK a \in {"send", "invite"} :
          device' = [device EXCEPT ![d] =
            [at |-> a, token |-> NULL, version |-> 0, seen |-> {}, role |-> NULL]]
    BY <1>6 DEF ForgotPassword, ResendInvite
  <2>2. PICK x : x = [at |-> a, token |-> NULL, version |-> 0, seen |-> {}, role |-> NULL]
    OBVIOUS
  <2>3. x \in DeviceSet /\ x.at # "commit" /\ x.version <= tokenVersion
    BY <1>0, <2>2, StageNames, DeviceFields DEF DeviceSet
  <2>4. /\ device[d].at # "commit"
        /\ UNCHANGED <<rowVars, tokenVersion, changes, access, refreshToken, resetToken, changing>>
    BY <1>6 DEF ForgotPassword, ResendInvite, Resting
  <2> QED
    BY <2>1, <2>2, <2>3, <2>4, ReadStep
<1>7. ASSUME NEW d \in Devices, DeleteUnusedEmployeePasswordResetTokens(d) PROVE SessionInv'
  <2>1. PICK x : x = [at |-> "send", token |-> NULL, version |-> 0, seen |-> {}, role |-> NULL]
    OBVIOUS
  <2>2. x \in DeviceSet /\ x.at # "commit" /\ x.version <= tokenVersion
    BY <1>0, <2>1, StageNames, DeviceFields DEF DeviceSet
  <2>3. /\ device' = [device EXCEPT ![d] = x] /\ device[d].at # "commit"
        /\ UNCHANGED <<rowVars, tokenVersion, changes, access, refreshToken, changing>>
    BY <1>7, <2>1 DEF DeleteUnusedEmployeePasswordResetTokens
  <2>4. resetToken' \in [ResetTokens -> TokenStates]
    BY <1>0, <1>7 DEF DeleteUnusedEmployeePasswordResetTokens, AllSpent, TokenStates
  <2>5. RowInv'
    BY <1>0, <2>3, <2>4, TokensStep
  <2> QED
    BY <2>2, <2>3, <2>5, WriteStep
<1>8. ASSUME NEW d \in Devices, NEW t \in ResetTokens, CreatePasswordResetToken(d, t) PROVE SessionInv'
  <2>1. PICK x : x = Resting
    OBVIOUS
  <2>2. x \in DeviceSet /\ x.at # "commit" /\ x.version <= tokenVersion
    BY <1>0, <2>1, StageNames, DeviceFields DEF DeviceSet
  <2>3. /\ device' = [device EXCEPT ![d] = x] /\ device[d].at # "commit"
        /\ UNCHANGED <<rowVars, tokenVersion, changes, access, refreshToken, changing>>
    BY <1>8, <2>1 DEF CreatePasswordResetToken
  <2>4. resetToken' \in [ResetTokens -> TokenStates]
    BY <1>0, <1>8 DEF CreatePasswordResetToken, AllSpent, TokenStates
  <2>5. RowInv'
    BY <1>0, <2>3, <2>4, TokensStep
  <2> QED
    BY <2>2, <2>3, <2>5, WriteStep
<1>9. ASSUME NEW d \in Devices, NEW t \in ResetTokens, ResetPassword(d, t) PROVE SessionInv'
  <2>1. PICK x : x = [at |-> "change", token |-> t, version |-> 0, seen |-> {}, role |-> NULL]
    OBVIOUS
  <2>2. x \in DeviceSet /\ x.at # "commit" /\ x.version <= tokenVersion
    BY <1>0, <2>1, StageNames, DeviceFields DEF DeviceSet
  <2>3. /\ device' = [device EXCEPT ![d] = x] /\ device[d].at # "commit"
        /\ UNCHANGED <<rowVars, tokenVersion, changes, access, refreshToken, resetToken, changing>>
    BY <1>9, <2>1 DEF ResetPassword, Resting
  <2> QED
    BY <2>2, <2>3, ReadStep
<1>10. ASSUME NEW d \in Devices, ChangePassword(d) PROVE SessionInv'
  <2>1. PICK x : x = [at |-> "change", token |-> NULL, version |-> tokenVersion, seen |-> {}, role |-> NULL]
    OBVIOUS
  <2>2. x \in DeviceSet /\ x.at # "commit" /\ x.version <= tokenVersion
    BY <1>0, <2>1, StageNames, DeviceFields DEF DeviceSet
  <2>3. /\ device' = [device EXCEPT ![d] = x] /\ device[d].at # "commit"
        /\ UNCHANGED <<rowVars, tokenVersion, changes, access, refreshToken, resetToken, changing>>
    BY <1>10, <2>1 DEF ChangePassword, Resting
  <2> QED
    BY <2>2, <2>3, ReadStep
<1>11. ASSUME NEW d \in Devices, RevokeRefreshTokensByCustomerID(d) PROVE SessionInv'
  <2>1. PICK x : x = [at |-> "commit", token |-> device[d].token, version |-> device[d].version,
                      seen |-> {t \in RefreshTokens : refreshToken[t] = "live"}, role |-> NULL]
    OBVIOUS
  <2>2. x \in DeviceSet /\ x.at = "commit" /\ x.version = device[d].version
    BY <1>0, <2>1, StageNames, DeviceFields DEF DeviceSet
  <2>3. /\ device' = [device EXCEPT ![d] = x] /\ changing = NULL /\ changing' = d
        /\ UNCHANGED <<rowVars, tokenVersion, changes, access, refreshToken, resetToken>>
    BY <1>11, <2>1 DEF RevokeRefreshTokensByCustomerID
  <2>4. /\ device' \in [Devices -> DeviceSet] /\ device'[d] = x
        /\ \A e \in Devices \ {d} : device'[e] = device[e]
    BY <1>0, <2>2, <2>3
  <2>5. RowInv'
    BY <2>3 DEF SessionInv, RowInv, rowVars
  <2>6. \A e \in Devices : device'[e].at = "commit" <=> changing' = e
    BY <1>0, <2>2, <2>3, <2>4, SessionAssumption
  <2>7. \A e \in Devices : device'[e].version <= tokenVersion'
    BY <2>2, <2>3, <2>4 DEF SessionInv, RequestInv
  <2> QED
    BY <2>3, <2>4, <2>5, <2>6, <2>7 DEF SessionInv, RequestInv
<1>12. ASSUME NEW d \in Devices, ChangeCommits(d) PROVE SessionInv'
  <2>1. PICK x : x = [at |-> "issue", token |-> NULL, version |-> tokenVersion + 1, seen |-> {},
                      role |-> employeeRole]
    OBVIOUS
  <2>2. /\ device' = [device EXCEPT ![d] = x] /\ device[d].at = "commit" /\ changing' = NULL
        /\ tokenVersion' = tokenVersion + 1 /\ changes' = changes + 1 /\ changes < MaxChanges
        /\ roleChanged' = FALSE /\ UNCHANGED <<employeeRole, access>>
    BY <1>12, <2>1 DEF ChangeCommits, NextVersion
  <2>3. account' \in [staff : BOOLEAN, active : BOOLEAN, password : BOOLEAN, deleted : BOOLEAN]
    BY <1>12 DEF ChangeCommits, WithPassword, SessionInv, RowInv
  <2>4. /\ refreshToken' \in [RefreshTokens -> TokenStates]
        /\ resetToken' \in [ResetTokens -> TokenStates]
    BY <1>0, <1>12 DEF ChangeCommits, TokenStates
  <2>5. RowInv' /\ tokenVersion' \in Nat /\ tokenVersion <= tokenVersion'
    BY <2>2, <2>3, <2>4, CountedStep
  <2>6. tokenVersion + 1 \in 0..MaxChanges
    BY <2>2, <2>5 DEF RowInv
  <2>7. x \in DeviceSet /\ x.at # "commit" /\ x.version = tokenVersion'
    BY <1>0, <2>1, <2>2, <2>6, StageNames DEF DeviceSet
  <2>8. x.version <= tokenVersion'
    BY <2>5, <2>7
  <2>9. changing' = IF changing = d THEN NULL ELSE changing
    BY <1>0, <2>2
  <2> QED
    BY <2>2, <2>5, <2>7, <2>8, <2>9, RequestStep DEF SessionInv
<1>13. ASSUME NEW d \in Devices, NEW role \in EmployeeRoles, UpdateEmployeeReads(d, role) PROVE SessionInv'
  <2>1. PICK x : x = [at |-> IF role = employeeRole THEN "keep" ELSE "write",
                      token |-> NULL, version |-> 0, seen |-> {}, role |-> role]
    OBVIOUS
  <2>2. x \in DeviceSet /\ x.at # "commit" /\ x.version <= tokenVersion
    BY <1>0, <2>1, StageNames, DeviceFields DEF DeviceSet, RolesOrNone
  <2>3. /\ device' = [device EXCEPT ![d] = x] /\ device[d].at # "commit"
        /\ UNCHANGED <<rowVars, tokenVersion, changes, access, refreshToken, resetToken, changing>>
    BY <1>13, <2>1 DEF UpdateEmployeeReads, Resting
  <2> QED
    BY <2>2, <2>3, ReadStep
<1>14. ASSUME NEW d \in Devices, UpdateEmployee(d) PROVE SessionInv'
  <2>1. PICK x : x = IF ~account.deleted /\ device[d].at = "write"
                     THEN [at |-> "outdate", token |-> NULL, version |-> 0, seen |-> {},
                           role |-> NULL]
                     ELSE Resting
    OBVIOUS
  <2>2. x \in DeviceSet /\ x.at # "commit" /\ x.version <= tokenVersion
    BY <1>0, <2>1, StageNames, DeviceFields DEF DeviceSet
  <2>3. /\ device' = [device EXCEPT ![d] = x] /\ device[d].at # "commit"
        /\ UNCHANGED <<account, tokenVersion, changes, access, refreshToken, resetToken, changing>>
    BY <1>14, <2>1 DEF UpdateEmployee
  <2>4. employeeRole' \in RolesOrNone /\ roleChanged' \in BOOLEAN
    <3>1. device[d].role \in RolesOrNone /\ roleChanged \in BOOLEAN
      BY <1>0, DeviceFields DEF SessionInv, RowInv
    <3> QED
      BY <1>0, <1>14, <3>1 DEF UpdateEmployee
  <2>5. RowInv'
    BY <2>3, <2>4 DEF SessionInv, RowInv
  <2> QED
    BY <2>2, <2>3, <2>5, WriteStep
<1>15. ASSUME NEW d \in Devices, RevokeForRole(d) PROVE SessionInv'
  <2>1. PICK x : x = [at |-> "bump", token |-> NULL, version |-> 0, seen |-> {}, role |-> NULL]
    OBVIOUS
  <2>2. x \in DeviceSet /\ x.at # "commit" /\ x.version <= tokenVersion
    BY <1>0, <2>1, StageNames, DeviceFields DEF DeviceSet
  <2>3. /\ device' = [device EXCEPT ![d] = x] /\ device[d].at # "commit"
        /\ UNCHANGED <<rowVars, tokenVersion, changes, access, resetToken, changing>>
    BY <1>15, <2>1 DEF RevokeForRole
  <2>4. refreshToken' \in [RefreshTokens -> TokenStates]
    BY <1>0, <1>15 DEF RevokeForRole, AllSpent, TokenStates
  <2>5. RowInv'
    BY <1>0, <2>3, <2>4, TokensStep
  <2> QED
    BY <2>2, <2>3, <2>5, WriteStep
<1>16. ASSUME NEW d \in Devices, IncrementEmployeeTokenVersion(d) PROVE SessionInv'
  <2>1. /\ device' = [device EXCEPT ![d] = Resting] /\ device[d].at # "commit"
        /\ tokenVersion' = tokenVersion + 1 /\ changes' = changes + 1 /\ changes < MaxChanges
        /\ roleChanged' = FALSE
        /\ UNCHANGED <<account, employeeRole, access, refreshToken, resetToken, changing>>
    BY <1>16 DEF IncrementEmployeeTokenVersion
  <2>2. account' \in [staff : BOOLEAN, active : BOOLEAN, password : BOOLEAN, deleted : BOOLEAN]
    BY <2>1 DEF SessionInv, RowInv
  <2>3. RowInv' /\ tokenVersion' \in Nat /\ tokenVersion <= tokenVersion'
    BY <1>0, <2>1, <2>2, CountedStep
  <2>4. changing' = (IF changing = d THEN NULL ELSE changing) /\ Resting.version <= tokenVersion'
    BY <1>0, <2>1, <2>3, DeviceFields
  <2> QED
    BY <2>1, <2>3, <2>4, RequestStep, DeviceFields DEF SessionInv
<1>17. ASSUME NEW d \in Devices, DeviceFails(d) PROVE SessionInv'
  <2>1. RowInv'
    BY <1>17 DEF DeviceFails, SessionInv, RowInv, rowVars
  <2>2. /\ device' = [device EXCEPT ![d] = Resting] /\ tokenVersion' = tokenVersion
        /\ changing' = IF changing = d THEN NULL ELSE changing
    BY <1>17 DEF DeviceFails
  <2>3. tokenVersion' \in Nat /\ tokenVersion <= tokenVersion' /\ Resting.version <= tokenVersion'
    BY <1>0, <2>2, DeviceFields
  <2> QED
    BY <2>1, <2>2, <2>3, RequestStep, DeviceFields DEF SessionInv
<1>18. CASE SoftDeleteEmployee
  <2>1. refreshToken' \in [RefreshTokens -> TokenStates]
    BY <1>0, <1>18 DEF SoftDeleteEmployee, AllSpent, TokenStates
  <2>2. RowInv'
    BY <1>18, <2>1 DEF SoftDeleteEmployee, SessionInv, RowInv
  <2> QED
    BY <1>18, <2>2 DEF SoftDeleteEmployee, SessionInv, RequestInv
<1>19. CASE Expires
  <2>1. /\ refreshToken' \in [RefreshTokens -> TokenStates]
        /\ resetToken' \in [ResetTokens -> TokenStates]
    BY <1>0, <1>19 DEF Expires, TokenStates
  <2>2. UNCHANGED <<rowVars, tokenVersion, changes, access, device, changing>>
    BY <1>19 DEF Expires
  <2>3. RowInv'
    BY <2>1, <2>2, TokensStep
  <2> QED
    BY <2>2, <2>3 DEF SessionInv, RequestInv
<1>20. CASE UNCHANGED sessionVars
  BY <1>20 DEF sessionVars, rowVars, SessionInv, RowInv, RequestInv
<1> QED
  BY <1>1, <1>2, <1>3, <1>4, <1>5, <1>6, <1>7, <1>8, <1>9, <1>10, <1>11, <1>12, <1>13, <1>14,
     <1>15, <1>16, <1>17, <1>18, <1>19, <1>20 DEF SessionNext

\* The account's row, its tokens and the requests have the declared shapes.
THEOREM SessionTypeCorrect == SessionSpec => []SessionTypeOK
<1>1. SessionInv => SessionTypeOK
  BY SessionInvTypes
<1> QED
  BY <1>1, SessionInitInv, SessionStepInv, PTL DEF SessionSpec

\* Whichever of the requests' versions are written into tokens, and however late,
\* the version a change leaves is one that no token has.
THEOREM ChangeEndsAccessHolds == SessionSpec => ChangeEndsAccess
<1>1. SessionInv /\ [SessionNext]_sessionVars =>
        [changes' # changes => \A t \in access : t.version # tokenVersion']_sessionVars
  <2> SUFFICES ASSUME SessionInv, SessionNext, changes' # changes, NEW t \in access
               PROVE  t.version # tokenVersion'
    OBVIOUS
  <2>1. tokenVersion' = tokenVersion + 1
    BY DEF SessionNext, Login, RevokeRefreshToken, RefreshReloads, issueTokens, Refresh, Logout,
       ForgotPassword, ResendInvite, DeleteUnusedEmployeePasswordResetTokens,
       CreatePasswordResetToken, ResetPassword, ChangePassword, RevokeRefreshTokensByCustomerID,
       ChangeCommits, NextVersion, UpdateEmployeeReads, UpdateEmployee, RevokeForRole, IncrementEmployeeTokenVersion,
       DeviceFails, SoftDeleteEmployee, Expires
  <2> QED
    BY <2>1, SessionAssumption DEF SessionInv, RowInv
<1> QED
  BY <1>1, SessionInitInv, SessionStepInv, PTL DEF SessionSpec, ChangeEndsAccess

-----------------------------------------------------------------------------
(* A version and a role are read together and written together into a      *)
(* token.  So while the version is the same and no change of the role is   *)
(* still to be counted, the role is the same too.                          *)

RolesInv ==
  ~roleChanged =>
    /\ \A t \in access : t.version = tokenVersion => t.role = employeeRole
    /\ \A d \in Devices :
         device[d].at = "issue" /\ device[d].version = tokenVersion =>
           device[d].role = employeeRole

LEMMA RolesStep ==
  ASSUME SessionInv, RolesInv, [SessionNext]_sessionVars
  PROVE  RolesInv'
<1> SUFFICES ASSUME ~roleChanged'
             PROVE  /\ \A t \in access' : t.version = tokenVersion' => t.role = employeeRole'
                    /\ \A d \in Devices :
                         device'[d].at = "issue" /\ device'[d].version = tokenVersion' =>
                           device'[d].role = employeeRole'
  BY DEF RolesInv
<1>1. device \in [Devices -> DeviceSet] /\ tokenVersion \in Nat
  BY SessionAssumption DEF SessionInv, RowInv, RequestInv
<1>2. \A d \in Devices : device[d].version <= tokenVersion
  BY DEF SessionInv, RequestInv
<1>3. \A t \in access : t.version \in 0..tokenVersion
  BY DEF SessionInv, RowInv
\* Steps of which no request has new tokens to issue.
<1>4. ASSUME UNCHANGED <<employeeRole, roleChanged, tokenVersion, access>>,
             \A e \in Devices : device'[e] = device[e] \/ device'[e].at # "issue"
      PROVE  /\ \A t \in access' : t.version = tokenVersion' => t.role = employeeRole'
             /\ \A d \in Devices :
                  device'[d].at = "issue" /\ device'[d].version = tokenVersion' =>
                    device'[d].role = employeeRole'
  BY <1>4 DEF RolesInv
\* Steps that count a change: whatever was read before is of an older version.
<1>5. ASSUME NEW d \in Devices, tokenVersion' = tokenVersion + 1, UNCHANGED <<employeeRole, access>>,
             \A e \in Devices \ {d} : device'[e] = device[e],
             device'[d].at = "issue" => device'[d].role = employeeRole
      PROVE  /\ \A t \in access' : t.version = tokenVersion' => t.role = employeeRole'
             /\ \A e \in Devices :
                  device'[e].at = "issue" /\ device'[e].version = tokenVersion' =>
                    device'[e].role = employeeRole'
  <2>1. \A t \in access' : t.version # tokenVersion'
    BY <1>1, <1>3, <1>5
  <2>2. ASSUME NEW e \in Devices \ {d} PROVE device'[e].version # tokenVersion'
    <3>1. device'[e].version = device[e].version /\ device[e].version \in Nat
      BY <1>1, <1>5, <2>2, SessionAssumption DEF DeviceSet, Resting
    <3> QED
      BY <1>1, <1>2, <1>5, <3>1
  <2> QED
    BY <1>5, <2>1, <2>2
<1> USE DEF Moves, Takes, Rests, rowVars
<1>6. ASSUME NEW d \in Devices, Login(d) \/ RefreshReloads(d)
      PROVE  /\ \A t \in access' : t.version = tokenVersion' => t.role = employeeRole'
             /\ \A e \in Devices :
                  device'[e].at = "issue" /\ device'[e].version = tokenVersion' =>
                    device'[e].role = employeeRole'
  <2>1. /\ UNCHANGED <<employeeRole, roleChanged, tokenVersion, access>>
        /\ \A e \in Devices \ {d} : device'[e] = device[e]
    BY <1>1, <1>6 DEF Login, RefreshReloads
  <2>2. device'[d].at = "issue" => device'[d].role = employeeRole
    BY <1>1, <1>6 DEF Login, RefreshReloads, Resting
  <2> QED
    BY <2>1, <2>2 DEF RolesInv
<1>7. ASSUME NEW d \in Devices, NEW u \in RefreshTokens, issueTokens(d, u)
      PROVE  /\ \A t \in access' : t.version = tokenVersion' => t.role = employeeRole'
             /\ \A e \in Devices :
                  device'[e].at = "issue" /\ device'[e].version = tokenVersion' =>
                    device'[e].role = employeeRole'
  <2>1. /\ UNCHANGED <<employeeRole, roleChanged, tokenVersion>>
        /\ access' = access \cup {[version |-> device[d].version, role |-> device[d].role]}
        /\ device[d].at = "issue"
        /\ \A e \in Devices \ {d} : device'[e] = device[e]
        /\ device'[d].at # "issue"
    BY <1>1, <1>7 DEF issueTokens, Resting
  <2> QED
    BY <2>1 DEF RolesInv
<1>8. ASSUME NEW d \in Devices, ChangeCommits(d)
      PROVE  /\ \A t \in access' : t.version = tokenVersion' => t.role = employeeRole'
             /\ \A e \in Devices :
                  device'[e].at = "issue" /\ device'[e].version = tokenVersion' =>
                    device'[e].role = employeeRole'
  BY <1>1, <1>5, <1>8 DEF ChangeCommits, NextVersion
<1>9. ASSUME NEW d \in Devices, IncrementEmployeeTokenVersion(d)
      PROVE  /\ \A t \in access' : t.version = tokenVersion' => t.role = employeeRole'
             /\ \A e \in Devices :
                  device'[e].at = "issue" /\ device'[e].version = tokenVersion' =>
                    device'[e].role = employeeRole'
  BY <1>1, <1>5, <1>9 DEF IncrementEmployeeTokenVersion, Resting
<1>10. ASSUME NEW d \in Devices, UpdateEmployee(d)
      PROVE  /\ \A t \in access' : t.version = tokenVersion' => t.role = employeeRole'
             /\ \A e \in Devices :
                  device'[e].at = "issue" /\ device'[e].version = tokenVersion' =>
                    device'[e].role = employeeRole'
  <2>1. /\ UNCHANGED <<tokenVersion, access>>
        /\ \A e \in Devices : device'[e] = device[e] \/ device'[e].at # "issue"
    BY <1>1, <1>10 DEF UpdateEmployee, Resting
  <2>2. UNCHANGED <<employeeRole, roleChanged>>
    BY <1>10, Zenon DEF UpdateEmployee, SessionInv, RowInv
  <2> QED
    BY <1>4, <2>1, <2>2
<1>11. ASSUME NEW d \in Devices,
              \/ RevokeRefreshToken(d)
              \/ \E t \in RefreshTokens : Refresh(d, t) \/ Logout(d, t)
              \/ ForgotPassword(d)
              \/ ResendInvite(d) \/ DeleteUnusedEmployeePasswordResetTokens(d)
              \/ \E t \in ResetTokens : CreatePasswordResetToken(d, t) \/ ResetPassword(d, t)
              \/ ChangePassword(d) \/ RevokeRefreshTokensByCustomerID(d)
              \/ \E role \in EmployeeRoles : UpdateEmployeeReads(d, role)
              \/ RevokeForRole(d) \/ DeviceFails(d)
       PROVE  /\ UNCHANGED <<employeeRole, roleChanged, tokenVersion, access>>
              /\ \A e \in Devices : device'[e] = device[e] \/ device'[e].at # "issue"
  BY <1>1, <1>11 DEF RevokeRefreshToken, Refresh, Logout, ForgotPassword, ResendInvite,
     DeleteUnusedEmployeePasswordResetTokens, CreatePasswordResetToken, ResetPassword,
     ChangePassword, RevokeRefreshTokensByCustomerID, UpdateEmployeeReads, RevokeForRole,
     DeviceFails, Resting
<1>12. ASSUME SoftDeleteEmployee \/ Expires \/ UNCHANGED sessionVars
       PROVE  UNCHANGED <<employeeRole, roleChanged, tokenVersion, access, device>>
  BY <1>12 DEF SoftDeleteEmployee, Expires, sessionVars
<1> QED
  BY <1>4, <1>6, <1>7, <1>8, <1>9, <1>10, <1>11, <1>12 DEF SessionNext

\* Whatever a login or a refresh read before a change of the role, and however
\* late it issues its tokens: none that is let in names another role than the
\* employee's, unless UpdateEmployee has still to count the change, or failed to.
THEOREM SessionsKnowRoleHolds == SessionSpec => []SessionsKnowRole
<1>1. SessionInit => RolesInv
  BY DEF SessionInit, RolesInv, Resting
<1>2. SessionInv /\ RolesInv /\ [SessionNext]_sessionVars => RolesInv'
  BY RolesStep
<1>3. RolesInv => SessionsKnowRole
  BY DEF RolesInv, SessionsKnowRole, AuthMiddleware
<1> QED
  BY <1>1, <1>2, <1>3, SessionInitInv, SessionStepInv, PTL DEF SessionSpec

-----------------------------------------------------------------------------
(* Before an account is active, it has had no session and none is about to *)
(* begin: only a login, which asks, and a refresh token lead to one, and a *)
(* change of the password activates the account as it commits.             *)

NoSessionYet ==
  /\ \A t \in RefreshTokens : refreshToken[t] = "unused"
  /\ \A d \in Devices : device[d].at \notin {"revoke", "leave", "reload", "issue"}

InactiveInv ==
  ~account.active => ~account.password /\ access = {} /\ NoSessionYet

LEMMA InactiveStep ==
  ASSUME SessionInv, InactiveInv, [SessionNext]_sessionVars
  PROVE  InactiveInv'
<1> SUFFICES ASSUME ~account'.active
             PROVE  ~account'.password /\ access' = {} /\ NoSessionYet'
  BY DEF InactiveInv
<1>0. SessionTypeOK
  BY SessionInvTypes
<1> USE <1>0
<1> USE DEF InactiveInv, NoSessionYet, SessionTypeOK, Resting, Moves, Takes, Rests, AllSpent,
        rowVars
<1>1. CASE UNCHANGED sessionVars
  BY <1>1 DEF sessionVars
<1>2. CASE SoftDeleteEmployee
  BY <1>2 DEF SoftDeleteEmployee
<1>3. CASE Expires
  BY <1>3 DEF Expires
<1>4. ASSUME NEW d \in Devices, ChangeCommits(d) PROVE FALSE
  BY <1>4 DEF ChangeCommits, WithPassword
<1>5. ASSUME NEW d \in Devices,
             \/ Login(d) \/ RevokeRefreshToken(d) \/ RefreshReloads(d)
             \/ \E t \in RefreshTokens : issueTokens(d, t) \/ Refresh(d, t) \/ Logout(d, t)
      PROVE  ~account'.password /\ access' = {} /\ NoSessionYet'
  BY <1>5 DEF Login, RevokeRefreshToken, RefreshReloads, issueTokens, Refresh, Logout
<1>6. ASSUME NEW d \in Devices,
             \/ ForgotPassword(d) \/ ResendInvite(d) \/ DeleteUnusedEmployeePasswordResetTokens(d)
             \/ \E t \in ResetTokens : CreatePasswordResetToken(d, t) \/ ResetPassword(d, t)
             \/ ChangePassword(d) \/ RevokeRefreshTokensByCustomerID(d)
      PROVE  ~account'.password /\ access' = {} /\ NoSessionYet'
  <2>1. CASE ForgotPassword(d) \/ ResendInvite(d)
    <3>1. UNCHANGED <<account, access, refreshToken>>
      BY <2>1 DEF ForgotPassword, ResendInvite
    <3>2. device'[d].at \notin {"revoke", "leave", "reload", "issue"}
      BY <2>1 DEF ForgotPassword, ResendInvite
    <3>3. \A e \in Devices : e # d => device'[e] = device[e]
      BY <2>1 DEF ForgotPassword, ResendInvite
    <3> QED
      BY <3>1, <3>2, <3>3
  <2>2. CASE DeleteUnusedEmployeePasswordResetTokens(d)
    BY <2>2 DEF DeleteUnusedEmployeePasswordResetTokens
  <2>3. CASE \E t \in ResetTokens : CreatePasswordResetToken(d, t) \/ ResetPassword(d, t)
    <3>1. UNCHANGED <<account, access, refreshToken>>
      BY <2>3 DEF CreatePasswordResetToken, ResetPassword
    <3>2. device'[d].at \notin {"revoke", "leave", "reload", "issue"}
      BY <2>3 DEF CreatePasswordResetToken, ResetPassword
    <3>3. \A e \in Devices : e # d => device'[e] = device[e]
      BY <2>3 DEF CreatePasswordResetToken, ResetPassword
    <3> QED
      BY <3>1, <3>2, <3>3
  <2>4. CASE ChangePassword(d)
    BY <2>4 DEF ChangePassword
  <2>5. CASE RevokeRefreshTokensByCustomerID(d)
    BY <2>5 DEF RevokeRefreshTokensByCustomerID
  <2> QED
    BY <1>6, <2>1, <2>2, <2>3, <2>4, <2>5
<1>7. ASSUME NEW d \in Devices,
             \/ \E role \in EmployeeRoles : UpdateEmployeeReads(d, role)
             \/ UpdateEmployee(d) \/ RevokeForRole(d) \/ IncrementEmployeeTokenVersion(d)
             \/ DeviceFails(d)
      PROVE  ~account'.password /\ access' = {} /\ NoSessionYet'
  <2>1. CASE UpdateEmployee(d)
    BY <2>1 DEF UpdateEmployee
  <2>2. CASE RevokeForRole(d)
    BY <2>2 DEF RevokeForRole
  <2>3. CASE IncrementEmployeeTokenVersion(d)
    BY <2>3 DEF IncrementEmployeeTokenVersion
  <2>4. CASE DeviceFails(d)
    BY <2>4 DEF DeviceFails
  <2>5. CASE \E role \in EmployeeRoles : UpdateEmployeeReads(d, role)
    BY <2>5 DEF UpdateEmployeeReads
  <2> QED
    BY <1>7, <2>1, <2>2, <2>3, <2>4, <2>5
<1> QED
  BY <1>1, <1>2, <1>3, <1>4, <1>5, <1>6, <1>7 DEF SessionNext

\* An account that is not active has never been: an invitation that is followed
\* activates it in the transaction that sets its password, and nothing undoes it.
THEOREM InactiveNeverActivatedHolds == SessionSpec => []InactiveNeverActivated
<1>1. SessionInit => InactiveInv
  BY DEF SessionInit, InactiveInv, NoSessionYet, Resting
<1>2. SessionInv /\ InactiveInv /\ [SessionNext]_sessionVars => InactiveInv'
  BY InactiveStep
<1>3. InactiveInv => InactiveNeverActivated
  BY DEF InactiveInv, InactiveNeverActivated
<1> QED
  BY <1>1, <1>2, <1>3, SessionInitInv, SessionStepInv, PTL DEF SessionSpec

-----------------------------------------------------------------------------
(* Telling the staff *)

Calls == [at : {"idle", "telling", "aborted", "done", "undone"}, tx : BOOLEAN,
          listed : SUBSET Staff, todo : SUBSET Staff,
          rows : SUBSET [to : Staff, about : Tellings, read : BOOLEAN]]

Row(e, c) == [to |-> e, about |-> c, read |-> FALSE]

Gone(c) == telling[c].listed \ telling[c].todo

\* What a call has done so far: whoever is off its list was sent the event and
\* has a row, in the table or, until the commit, with the transaction.
CallListed(c) ==
  /\ telling[c].at = "idle" => telling[c].listed = {}
  /\ telling[c].todo \subseteq telling[c].listed
CallWrote(c) ==
  /\ \A n \in telling[c].rows : telling[c].tx /\ n.to \in Gone(c) /\ n = Row(n.to, c)
  /\ \A n \in notices : n.about = c =>
       /\ n.to \in Gone(c)
       /\ telling[c].tx => telling[c].at = "done"
CallSent(c) ==
  \A n \in telling[c].rows \cup notices : n.about = c => [to |-> n.to, about |-> c] \in announced
CallOwes(c) ==
  /\ telling[c].tx /\ telling[c].at \in {"telling", "aborted"} =>
       \A e \in Gone(c) : Row(e, c) \in telling[c].rows
  /\ telling[c].tx /\ telling[c].at = "done" =>
       \A e \in telling[c].listed :
         /\ [to |-> e, about |-> c] \in announced
         /\ staff[e].row = "erased" \/ \E n \in notices : n.to = e /\ n.about = c
CallInv(c) == CallListed(c) /\ CallWrote(c) /\ CallSent(c) /\ CallOwes(c)

ReadOnce == \A n, m \in notices : n.to = m.to /\ n.about = m.about => n = m

ToldInv ==
  /\ staff \in [Staff -> StaffRows]
  /\ telling \in [Tellings -> Calls]
  /\ notices \subseteq [to : Staff, about : Tellings, read : BOOLEAN]
  /\ ReadOnce
  /\ \A c \in Tellings : CallInv(c)

LEMMA StaffMoved ==
  ASSUME ToldInv, UNCHANGED tellingVars, staff' \in [Staff -> StaffRows],
         \A e \in Staff : staff[e].row = "erased" => staff'[e].row = "erased"
  PROVE  ToldInv'
<1>1. ASSUME NEW c \in Tellings PROVE CallInv(c)'
  BY DEF ToldInv, CallInv, CallListed, CallWrote, CallSent, CallOwes, Gone, Calls, tellingVars
<1> QED
  BY <1>1 DEF ToldInv, ReadOnce, tellingVars

\* What concerns other calls only.
LEMMA CallApart ==
  ASSUME ToldInv, UNCHANGED staff, announced \subseteq announced', NEW c \in Tellings,
         telling'[c] = telling[c],
         \A n : n.about = c => (n \in notices' <=> n \in notices)
  PROVE  CallInv(c)'
<1>1. CallInv(c) /\ telling[c] \in Calls
  BY DEF ToldInv
<1>2. \A n \in telling[c].rows : n.about = c
  BY <1>1 DEF CallInv, CallWrote, Row
<1> QED
  BY <1>1, <1>2 DEF CallInv, CallListed, CallWrote, CallSent, CallOwes, Gone, Calls

LEMMA RowIs ==
  ASSUME NEW e \in Staff, NEW c \in Tellings
  PROVE  /\ Row(e, c).to = e /\ Row(e, c).about = c /\ Row(e, c).read = FALSE
         /\ Row(e, c) \in [to : Staff, about : Tellings, read : BOOLEAN]
  BY DEF Row

\* The call's own rows come into the table together, the others one by one.
LEMMA NotifyStep ==
  ASSUME ToldInv, NEW c \in Tellings, NEW e \in Staff, NotifyEmployee(c, e)
  PROVE  ToldInv'
<1> DEFINE new == Row(e, c)
           t == telling[c]
           rows == IF t.tx THEN t.rows \cup {new} ELSE t.rows
<1>1. CallInv(c) /\ t \in Calls
  BY DEF ToldInv
<1>2. ASSUME NEW d \in Tellings, d # c PROVE CallInv(d)'
  BY <1>2, CallApart DEF NotifyEmployee, ToldInv
<1>3. /\ t.at = "telling" /\ e \in t.todo
      /\ UNCHANGED staff
      /\ notices' = IF t.tx THEN notices ELSE notices \cup {new}
      /\ announced' = announced \cup {[to |-> e, about |-> c]}
  BY DEF NotifyEmployee, Row
<1>4. telling' = [telling EXCEPT ![c] = [t EXCEPT !.todo = @ \ {e}, !.rows = rows]]
  BY DEF NotifyEmployee, ToldInv, Calls, Row
<1>5. [t EXCEPT !.todo = @ \ {e}, !.rows = rows] \in Calls
  <2>1. t.todo \ {e} \in SUBSET Staff
    BY <1>1 DEF Calls
  <2>2. rows \in SUBSET [to : Staff, about : Tellings, read : BOOLEAN]
    <3>1. t.rows \in SUBSET [to : Staff, about : Tellings, read : BOOLEAN]
      BY <1>1 DEF Calls
    <3>2. new \in [to : Staff, about : Tellings, read : BOOLEAN]
      BY RowIs
    <3> HIDE DEF t, new
    <3> QED
      BY <3>1, <3>2
  <2> HIDE DEF rows
  <2> QED
    BY <1>1, <2>1, <2>2 DEF Calls
<1>6. telling' \in [Tellings -> Calls]
  BY <1>4, <1>5 DEF ToldInv
<1>7. /\ telling'[c].at = "telling" /\ telling'[c].tx = t.tx /\ telling'[c].listed = t.listed
      /\ telling'[c].todo = t.todo \ {e} /\ telling'[c].rows = rows
  <2> HIDE DEF rows
  <2> QED
    BY <1>1, <1>3, <1>4 DEF ToldInv, Calls
<1>8. Gone(c)' = Gone(c) \cup {e} /\ e \notin Gone(c)
  BY <1>1, <1>3, <1>7 DEF CallInv, CallListed, Gone
<1>9. /\ new.to = e /\ new.about = c /\ new.read = FALSE /\ new = Row(new.to, c)
      /\ new \in [to : Staff, about : Tellings, read : BOOLEAN]
  BY RowIs
<1> HIDE DEF new, t
<1>10. CallInv(c)'
  <2>1. CallListed(c)'
    BY <1>1, <1>3, <1>7 DEF CallInv, CallListed, t
  <2>2. CallWrote(c)'
    BY <1>1, <1>3, <1>7, <1>8, <1>9 DEF CallInv, CallWrote, t
  <2>3. CallSent(c)'
    BY <1>1, <1>3, <1>7, <1>9 DEF CallInv, CallSent, t
  <2>4. CallOwes(c)'
    BY <1>1, <1>3, <1>7, <1>8, <1>9 DEF CallInv, CallOwes, t, new
  <2> QED
    BY <2>1, <2>2, <2>3, <2>4 DEF CallInv
<1>11. ReadOnce'
  <2>1. \A n \in notices : ~(n.to = e /\ n.about = c)
    BY <1>1, <1>8 DEF CallInv, CallWrote
  <2> QED
    BY <1>3, <1>9, <2>1 DEF ReadOnce, ToldInv
<1>12. notices' \subseteq [to : Staff, about : Tellings, read : BOOLEAN]
  BY <1>3, <1>9 DEF ToldInv
<1>13. staff' \in [Staff -> StaffRows]
  BY <1>3 DEF ToldInv
<1> QED
  BY <1>2, <1>6, <1>10, <1>11, <1>12, <1>13 DEF ToldInv

\* A call that goes on without writing a row.
LEMMA CallOn ==
  ASSUME ToldInv, NEW c \in Tellings, UNCHANGED <<staff, notices, announced>>,
         NEW t \in Calls, telling' = [telling EXCEPT ![c] = t], CallInv(c)'
  PROVE  ToldInv'
<1>1. ASSUME NEW d \in Tellings, d # c PROVE CallInv(d)'
  BY <1>1, CallApart DEF ToldInv
<1> QED
  BY <1>1 DEF ToldInv, ReadOnce

\* The same notification, read or not.
SameNotice(m, n) ==
  /\ m \in [to : Staff, about : Tellings, read : BOOLEAN]
  /\ m.to = n.to /\ m.about = n.about

LEMMA OnlyReadHolds ==
  ASSUME ToldInv, UNCHANGED <<staff, announced, telling>>,
         \A n \in notices : \E m \in notices' : SameNotice(m, n),
         \A m \in notices' : \E n \in notices : SameNotice(m, n),
         \A m, p \in notices' : m.to = p.to /\ m.about = p.about => m = p
  PROVE  ToldInv'
<1>1. ASSUME NEW c \in Tellings PROVE CallInv(c)'
  <2>1. CallInv(c)
    BY DEF ToldInv
  <2>2. CallListed(c)' /\ Gone(c)' = Gone(c)
    BY <2>1 DEF CallInv, CallListed, Gone
  <2>3. CallWrote(c)'
    BY <2>1, <2>2 DEF CallInv, CallWrote, SameNotice
  <2>4. CallSent(c)'
    BY <2>1 DEF CallInv, CallSent, SameNotice
  <2>5. CallOwes(c)'
    BY <2>1, <2>2 DEF CallInv, CallOwes, SameNotice
  <2> QED
    BY <2>2, <2>3, <2>4, <2>5 DEF CallInv
<1>2. notices' \subseteq [to : Staff, about : Tellings, read : BOOLEAN]
  BY DEF SameNotice
<1> QED
  BY <1>1, <1>2 DEF ToldInv, ReadOnce

ClerkRows ==
  [write : {"nothing", "outlet", "role"}, employee : Staff \cup {NULL},
   outlet : Workplaces \cup {NULL}, role : Roles]

\* Deletions keep the rows, and requests know what they may write.
StaffTyped == staff \in [Staff -> StaffRows] /\ clerk \in [Clerks -> ClerkRows]

LEMMA StaffTypedStep == StaffTyped /\ [StaffNext]_staffVars => StaffTyped'
<1> SUFFICES ASSUME StaffTyped, [StaffNext]_staffVars PROVE StaffTyped'
  OBVIOUS
<1> USE DEF StaffTyped
<1>1. CASE UNCHANGED <<staff, clerk>>
  BY <1>1
<1>2. Idling \in ClerkRows
  BY DEF Idling, ClerkRows, Roles
<1>3. ASSUME NEW a \in Clerks, NEW e \in Staff, NEW outlet \in Workplaces \cup {NULL},
             AssignEmployeeOutlet(a, e, outlet)
      PROVE  StaffTyped'
  <2>1. [Idling EXCEPT !.write = "outlet", !.employee = e, !.outlet = outlet] \in ClerkRows
    BY DEF Idling, ClerkRows, Roles
  <2> QED
    BY <1>3, <2>1 DEF AssignEmployeeOutlet
<1>4. ASSUME NEW a \in Clerks, NEW e \in Staff, NEW role \in Roles, UpdateEmployeeChecks(a, e, role)
      PROVE  StaffTyped'
  <2>1. [Idling EXCEPT !.write = "role", !.employee = e, !.role = role] \in ClerkRows
    BY DEF Idling, ClerkRows, Roles
  <2> QED
    BY <1>4, <2>1 DEF UpdateEmployeeChecks
<1>5. ASSUME NEW a \in Clerks, ClerkFails(a) \/ UpdateEmployeeOutlet(a) \/ UpdateEmployeeRole(a)
      PROVE  StaffTyped'
  <2>1. clerk[a].outlet \in Workplaces \cup {NULL} /\ clerk[a].role \in Roles
    BY DEF ClerkRows
  <2>2. clerk' \in [Clerks -> ClerkRows]
    BY <1>2, <1>5 DEF ClerkFails, UpdateEmployeeOutlet, UpdateEmployeeRole
  <2>3. staff' \in [Staff -> StaffRows]
    BY <1>5, <2>1 DEF ClerkFails, UpdateEmployeeOutlet, UpdateEmployeeRole, StaffRows
  <2> QED
    BY <2>2, <2>3
<1>6. ASSUME NEW e \in Staff, Activate(e) \/ DeleteSoftly(e) \/ HardDeleteEmployee(e)
      PROVE  StaffTyped'
  <2>1. /\ UNCHANGED clerk
        /\ staff' \in {[staff EXCEPT ![e].active = TRUE], [staff EXCEPT ![e].row = "deleted"],
                      [staff EXCEPT ![e].row = "erased"]}
    BY <1>6 DEF Activate, DeleteSoftly, HardDeleteEmployee
  <2>2. staff' \in [Staff -> StaffRows]
    <3>1. CASE staff' = [staff EXCEPT ![e].active = TRUE]
      BY <3>1 DEF StaffRows
    <3>2. CASE staff' = [staff EXCEPT ![e].row = "deleted"]
      BY <3>2 DEF StaffRows
    <3>3. CASE staff' = [staff EXCEPT ![e].row = "erased"]
      BY <3>3 DEF StaffRows
    <3> QED
      BY <2>1, <3>1, <3>2, <3>3
  <2> QED
    BY <2>1, <2>2
<1>7. ASSUME NEW e \in Staff, MarkAllEmployeeNotificationsRead(e) PROVE StaffTyped'
  BY <1>7 DEF MarkAllEmployeeNotificationsRead
<1>8. ASSUME NEW n \in notices, MarkEmployeeNotificationRead(n) PROVE StaffTyped'
  BY <1>8 DEF MarkEmployeeNotificationRead
<1>9. ASSUME NEW c \in Tellings,
             \/ \E outlet \in Workplaces, tx \in BOOLEAN : NotifyOutletEmployees(c, outlet, tx)
             \/ \E e \in Staff : NotifyEmployee(c, e)
             \/ NotifyFails(c) \/ NotifyReturns(c) \/ TellingRollsBack(c)
      PROVE  StaffTyped'
  BY <1>9 DEF NotifyOutletEmployees, NotifyEmployee, NotifyFails, NotifyReturns, TellingRollsBack
<1> QED
  BY <1>1, <1>3, <1>4, <1>5, <1>6, <1>7, <1>8, <1>9 DEF StaffNext, staffVars

LEMMA ToldStep == StaffTyped /\ ToldInv /\ [StaffNext]_staffVars => ToldInv'
<1> SUFFICES ASSUME StaffTyped, StaffTyped', ToldInv, [StaffNext]_staffVars PROVE ToldInv'
  BY StaffTypedStep
<1>1. CASE UNCHANGED staffVars
  BY <1>1, StaffMoved DEF staffVars, tellingVars, ToldInv
<1>2. ASSUME NEW a \in Clerks, ClerkFails(a) \/ UpdateEmployeeOutlet(a) \/ UpdateEmployeeRole(a)
      PROVE  ToldInv'
  <2>1. UNCHANGED tellingVars
    BY <1>2 DEF ClerkFails, UpdateEmployeeOutlet, UpdateEmployeeRole
  <2>2. \A e \in Staff : staff'[e].row = staff[e].row
    BY <1>2 DEF ClerkFails, UpdateEmployeeOutlet, UpdateEmployeeRole, ToldInv, StaffRows
  <2> QED
    BY <2>1, <2>2, StaffMoved DEF StaffTyped
<1>3. ASSUME NEW a \in Clerks, NEW e \in Staff,
             \/ \E outlet \in Workplaces \cup {NULL} : AssignEmployeeOutlet(a, e, outlet)
             \/ \E role \in Roles : UpdateEmployeeChecks(a, e, role)
      PROVE  ToldInv'
  BY <1>3, StaffMoved DEF AssignEmployeeOutlet, UpdateEmployeeChecks, ToldInv
<1>4. ASSUME NEW e \in Staff, Activate(e) \/ DeleteSoftly(e) PROVE ToldInv'
  <2>1. staff' \in [Staff -> StaffRows]
    BY DEF StaffTyped
  <2>2. \A f \in Staff : staff[f].row = "erased" => staff'[f].row = "erased"
    BY <1>4 DEF Activate, DeleteSoftly, ToldInv, StaffRows
  <2> QED
    BY <1>4, <2>1, <2>2, StaffMoved DEF Activate, DeleteSoftly, tellingVars
<1>5. ASSUME NEW e \in Staff, HardDeleteEmployee(e) PROVE ToldInv'
  <2>1. /\ \A f \in Staff : staff'[f].row = IF f = e THEN "erased" ELSE staff[f].row
        /\ staff' \in [Staff -> StaffRows]
        /\ notices' = {n \in notices : n.to # e}
        /\ UNCHANGED <<announced, telling>>
    BY <1>5 DEF HardDeleteEmployee, ToldInv, StaffRows
  <2>2. ASSUME NEW c \in Tellings PROVE CallInv(c)'
    <3>1. CallInv(c) /\ telling[c] \in Calls
      BY DEF ToldInv
    <3> QED
      BY <2>1, <3>1 DEF CallInv, CallListed, CallWrote, CallSent, CallOwes, Gone, Calls
  <2> QED
    BY <2>1, <2>2 DEF ToldInv, ReadOnce
<1>6. ASSUME NEW e \in Staff, MarkAllEmployeeNotificationsRead(e) PROVE ToldInv'
  <2>1. notices' = {IF n.to = e THEN [n EXCEPT !.read = TRUE] ELSE n : n \in notices}
    BY <1>6 DEF MarkAllEmployeeNotificationsRead
  <2>2. \A n \in notices : LET m == IF n.to = e THEN [n EXCEPT !.read = TRUE] ELSE n
                          IN  m \in notices' /\ SameNotice(m, n)
    BY <2>1 DEF ToldInv, SameNotice
  <2>3. \A m \in notices' : \E n \in notices : SameNotice(m, n)
    BY <2>1 DEF ToldInv, SameNotice
  <2>4. \A m, p \in notices' : m.to = p.to /\ m.about = p.about => m = p
    <3> SUFFICES ASSUME NEW m \in notices', NEW p \in notices', m.to = p.to, m.about = p.about
                 PROVE  m = p
      OBVIOUS
    <3>1. PICK n \in notices : m = IF n.to = e THEN [n EXCEPT !.read = TRUE] ELSE n
      BY <2>1
    <3>2. PICK q \in notices : p = IF q.to = e THEN [q EXCEPT !.read = TRUE] ELSE q
      BY <2>1
    <3>3. n.to = m.to /\ n.about = m.about /\ q.to = p.to /\ q.about = p.about
      BY <3>1, <3>2 DEF ToldInv
    <3> QED
      BY <3>1, <3>2, <3>3 DEF ToldInv, ReadOnce
  <2> QED
    BY <1>6, <2>2, <2>3, <2>4, OnlyReadHolds DEF MarkAllEmployeeNotificationsRead
<1>7. ASSUME NEW n \in notices, MarkEmployeeNotificationRead(n) PROVE ToldInv'
  <2> DEFINE read == [n EXCEPT !.read = TRUE]
  <2>1. notices' = (notices \ {n}) \cup {read}
    BY <1>7 DEF MarkEmployeeNotificationRead
  <2>2. SameNotice(read, n)
    BY DEF ToldInv, SameNotice
  <2> HIDE DEF read
  <2>3. /\ \A m \in notices : SameNotice(m, m)
        /\ \A m \in notices : \E p \in notices' : SameNotice(p, m)
        /\ \A p \in notices' : \E m \in notices : SameNotice(p, m)
    BY <2>1, <2>2 DEF ToldInv, SameNotice
  <2>4. \A m, p \in notices' : m.to = p.to /\ m.about = p.about => m = p
    BY <2>1, <2>2 DEF ToldInv, ReadOnce, SameNotice
  <2> QED
    BY <1>7, <2>3, <2>4, OnlyReadHolds DEF MarkEmployeeNotificationRead
<1>8. ASSUME NEW c \in Tellings, NEW outlet \in Workplaces, NEW tx \in BOOLEAN,
             NotifyOutletEmployees(c, outlet, tx)
      PROVE  ToldInv'
  <2> DEFINE listed == ListEmployeesByOutletAndRole(outlet,
                         IF tx THEN {"outlet_admin", "driver"} ELSE {"outlet_admin"})
             t == [at |-> "telling", tx |-> tx, listed |-> listed, todo |-> listed, rows |-> {}]
  <2>1. listed \subseteq Staff
    BY DEF ListEmployeesByOutletAndRole
  <2>2. /\ telling[c].at = "idle" /\ telling' = [telling EXCEPT ![c] = t]
        /\ UNCHANGED <<staff, notices, announced>>
    BY <1>8 DEF NotifyOutletEmployees
  <2> HIDE DEF listed
  <2>3. t \in Calls
    BY <2>1 DEF Calls
  <2>4. telling'[c] = t /\ Gone(c)' = {} /\ t.rows = {} /\ t.at = "telling" /\ t.todo = t.listed
    BY <2>2 DEF ToldInv, Gone
  <2>5. CallInv(c) /\ Gone(c) = {}
    BY <2>2 DEF ToldInv, CallInv, CallListed, Gone
  <2> HIDE DEF t
  <2>6. CallInv(c)'
    BY <2>2, <2>4, <2>5 DEF CallInv, CallListed, CallWrote, CallSent, CallOwes
  <2> QED
    BY <2>2, <2>3, <2>6, CallOn
<1>9. ASSUME NEW c \in Tellings, NotifyFails(c) PROVE ToldInv'
  <2> DEFINE t == [telling[c] EXCEPT !.at = IF telling[c].tx THEN "aborted" ELSE "done"]
  <2>1. /\ telling[c].at = "telling"
        /\ telling' = [telling EXCEPT ![c] = t] /\ UNCHANGED <<staff, notices, announced>>
    BY <1>9 DEF NotifyFails, ToldInv
  <2>2. CallInv(c) /\ telling[c] \in Calls
    BY DEF ToldInv
  <2>3. t \in Calls
    BY <2>2 DEF Calls
  <2>4. /\ t.at = IF telling[c].tx THEN "aborted" ELSE "done"
        /\ t.tx = telling[c].tx /\ t.listed = telling[c].listed
        /\ t.todo = telling[c].todo /\ t.rows = telling[c].rows
    BY <2>2 DEF Calls
  <2> HIDE DEF t
  <2>5. telling'[c] = t /\ Gone(c)' = Gone(c)
    BY <2>1, <2>4 DEF ToldInv, Gone
  <2>6. CallInv(c)'
    BY <2>1, <2>2, <2>4, <2>5 DEF CallInv, CallListed, CallWrote, CallSent, CallOwes
  <2> QED
    BY <2>1, <2>3, <2>6, CallOn
<1>10. ASSUME NEW c \in Tellings, NotifyReturns(c) PROVE ToldInv'
  <2> DEFINE t == telling[c]
             u == [t EXCEPT !.at = "done", !.rows = {}]
  <2>1. /\ t.at = "telling" /\ t.todo = {}
        /\ telling' = [telling EXCEPT ![c] = u]
        /\ notices' = notices \cup t.rows /\ UNCHANGED <<staff, announced>>
    BY <1>10 DEF NotifyReturns, ToldInv
  <2>2. CallInv(c) /\ t \in Calls
    BY DEF ToldInv
  <2>3. u \in Calls
    BY <2>2 DEF Calls
  <2>4. u.at = "done" /\ u.rows = {} /\ u.tx = t.tx /\ u.listed = t.listed /\ u.todo = {}
    BY <2>1, <2>2 DEF Calls
  <2> HIDE DEF t, u
  <2>5. /\ telling'[c] = u /\ Gone(c)' = Gone(c) /\ Gone(c) = t.listed
        /\ telling' \in [Tellings -> Calls]
    BY <2>1, <2>3, <2>4 DEF ToldInv, Gone, t
  <2>6. \A n \in t.rows : t.tx /\ n.about = c /\ n.to \in Gone(c) /\ n = Row(n.to, c)
                          /\ n \in [to : Staff, about : Tellings, read : BOOLEAN]
    BY <2>2 DEF CallInv, CallWrote, Row, t, Calls
  <2>7. \A n \in t.rows, m \in notices : ~(n.to = m.to /\ n.about = m.about)
    BY <2>1, <2>2, <2>6 DEF CallInv, CallWrote, t
  <2>8. CallInv(c)'
    <3>1. CallListed(c)'
      BY <2>4, <2>5 DEF CallListed
    <3>2. CallWrote(c)'
      BY <2>1, <2>2, <2>4, <2>5, <2>6 DEF CallInv, CallWrote
    <3>3. CallSent(c)'
      BY <2>1, <2>2, <2>4, <2>5 DEF CallInv, CallSent, t
    <3>4. ASSUME t.tx, NEW e \in t.listed
          PROVE  /\ [to |-> e, about |-> c] \in announced
                 /\ \E n \in t.rows : n.to = e /\ n.about = c
      <4>1. Row(e, c) \in t.rows /\ e \in Staff
        BY <2>1, <2>2, <2>5, <3>4 DEF CallInv, CallOwes, t, Calls
      <4>2. Row(e, c).to = e /\ Row(e, c).about = c
        BY <4>1, RowIs
      <4> QED
        BY <2>2, <4>1, <4>2 DEF CallInv, CallSent, t
    <3>5. CallOwes(c)'
      BY <2>1, <2>4, <2>5, <3>4 DEF CallOwes
    <3> QED
      BY <3>1, <3>2, <3>3, <3>5 DEF CallInv
  <2>9. ASSUME NEW d \in Tellings, d # c PROVE CallInv(d)'
    <3>1. \A n : n.about = d => (n \in notices' <=> n \in notices)
      BY <2>1, <2>6, <2>9
    <3>2. telling'[d] = telling[d]
      BY <2>1, <2>9 DEF ToldInv
    <3> QED
      BY <2>1, <3>1, <3>2, CallApart
  <2>10. ReadOnce'
    BY <2>1, <2>6, <2>7 DEF ToldInv, ReadOnce
  <2> QED
    BY <2>1, <2>5, <2>6, <2>8, <2>9, <2>10 DEF ToldInv
<1>11. ASSUME NEW c \in Tellings, TellingRollsBack(c) PROVE ToldInv'
  <2> DEFINE t == [telling[c] EXCEPT !.at = "undone", !.rows = {}]
  <2>1. /\ telling[c].tx /\ telling[c].at \in {"telling", "aborted"}
        /\ telling' = [telling EXCEPT ![c] = t] /\ UNCHANGED <<staff, notices, announced>>
    BY <1>11 DEF TellingRollsBack, ToldInv
  <2>2. CallInv(c) /\ telling[c] \in Calls
    BY DEF ToldInv
  <2>3. t \in Calls
    BY <2>2 DEF Calls
  <2>4. /\ t.at = "undone" /\ t.rows = {} /\ t.tx = telling[c].tx
        /\ t.listed = telling[c].listed /\ t.todo = telling[c].todo
    BY <2>2 DEF Calls
  <2> HIDE DEF t
  <2>5. telling'[c] = t /\ Gone(c)' = Gone(c)
    BY <2>1, <2>4 DEF ToldInv, Gone
  <2>6. CallInv(c)'
    BY <2>1, <2>2, <2>4, <2>5 DEF CallInv, CallListed, CallWrote, CallSent, CallOwes
  <2> QED
    BY <2>1, <2>3, <2>6, CallOn
<1> QED
  BY <1>1, <1>2, <1>3, <1>4, <1>5, <1>6, <1>7, <1>8, <1>9, <1>10, <1>11, NotifyStep DEF StaffNext

LEMMA StaffTypedHolds == StaffSpec => []StaffTyped
<1>1. StaffInit => StaffTyped
  BY DEF StaffInit, StaffTyped, StaffRows, Roles, ClerkRows, Idling
<1> QED
  BY <1>1, StaffTypedStep, PTL DEF StaffSpec

LEMMA ToldInvHolds == StaffSpec => []ToldInv
<1>1. StaffInit => ToldInv
  BY DEF StaffInit, ToldInv, ReadOnce, CallInv, CallListed, CallWrote, CallSent, CallOwes, Gone,
     Calls, Untold, StaffRows, Roles
<1> QED
  BY <1>1, StaffTypedHolds, ToldStep, PTL DEF StaffSpec

\* However many employees are listed, moved, deleted and erased while they are
\* told, and although the error is ignored: the outlet's staff has the
\* notification of every payment that is confirmed, and of no other.
THEOREM OutletIsToldHolds == StaffSpec => []OutletIsTold
<1>1. ToldInv => OutletIsTold
  <2> SUFFICES ASSUME ToldInv, NEW c \in Tellings
               PROVE  /\ telling[c].tx /\ telling[c].at = "done" =>
                           \A e \in telling[c].listed :
                             /\ [to |-> e, about |-> c] \in announced
                             /\ e \in Told(c) \/ staff[e].row = "erased"
                      /\ telling[c].tx /\ telling[c].at # "done" => Told(c) = {}
                      /\ Told(c) \subseteq telling[c].listed
                      /\ \A n \in notices : n.about = c =>
                           /\ [to |-> n.to, about |-> c] \in announced
                           /\ [n EXCEPT !.read = ~n.read] \notin notices
    BY DEF OutletIsTold
  <2>1. CallInv(c)
    BY DEF ToldInv
  <2>2. ASSUME NEW n \in notices PROVE [n EXCEPT !.read = ~n.read] \notin notices
    <3>1. PICK m : m = [n EXCEPT !.read = ~n.read]
      OBVIOUS
    <3>2. n.read \in BOOLEAN /\ m.to = n.to /\ m.about = n.about /\ m.read = ~n.read
      BY <3>1 DEF ToldInv
    <3>3. m # n
      BY <3>2
    <3> QED
      BY <3>1, <3>2, <3>3 DEF ToldInv, ReadOnce
  <2> QED
    BY <2>1, <2>2 DEF CallInv, CallListed, CallWrote, CallSent, CallOwes, Gone, Told
<1> QED
  BY <1>1, ToldInvHolds, PTL

\* Changes are counted, and events go to employees, about calls.
StaffCounted ==
  staffEdits \in 0..MaxStaffEdits /\ announced \subseteq [to : Staff, about : Tellings]

LEMMA StaffCountedStep == StaffCounted /\ [StaffNext]_staffVars => StaffCounted'
<1> SUFFICES ASSUME StaffCounted, [StaffNext]_staffVars PROVE StaffCounted'
  OBVIOUS
<1>1. CASE UNCHANGED <<staffEdits, announced>>
  BY <1>1 DEF StaffCounted
<1>2. CASE StaffEdit /\ UNCHANGED announced
  BY <1>2, StaffAssumption DEF StaffEdit, StaffCounted
<1>3. ASSUME NEW a \in Clerks, UpdateEmployeeOutlet(a) \/ UpdateEmployeeRole(a)
      PROVE  StaffEdit /\ UNCHANGED announced
  BY <1>3 DEF UpdateEmployeeOutlet, UpdateEmployeeRole, tellingVars
<1>4. ASSUME NEW a \in Clerks,
             \/ ClerkFails(a)
             \/ \E e \in Staff :
                  \/ \E outlet \in Workplaces \cup {NULL} : AssignEmployeeOutlet(a, e, outlet)
                  \/ \E role \in Roles : UpdateEmployeeChecks(a, e, role)
      PROVE  UNCHANGED <<staffEdits, announced>>
  BY <1>4 DEF ClerkFails, AssignEmployeeOutlet, UpdateEmployeeChecks, tellingVars
<1>5. ASSUME NEW e \in Staff, DeleteSoftly(e) \/ HardDeleteEmployee(e)
      PROVE  StaffEdit /\ UNCHANGED announced
  BY <1>5 DEF DeleteSoftly, HardDeleteEmployee, tellingVars
<1>6. ASSUME NEW e \in Staff, Activate(e) \/ MarkAllEmployeeNotificationsRead(e)
      PROVE  UNCHANGED <<staffEdits, announced>>
  BY <1>6 DEF Activate, MarkAllEmployeeNotificationsRead, tellingVars
<1>7. ASSUME NEW c \in Tellings,
             \/ \E outlet \in Workplaces, tx \in BOOLEAN : NotifyOutletEmployees(c, outlet, tx)
             \/ NotifyFails(c) \/ NotifyReturns(c) \/ TellingRollsBack(c)
      PROVE  UNCHANGED <<staffEdits, announced>>
  BY <1>7 DEF NotifyOutletEmployees, NotifyFails, NotifyReturns, TellingRollsBack
<1>8. ASSUME NEW c \in Tellings, NEW e \in Staff, NotifyEmployee(c, e) PROVE StaffCounted'
  BY <1>8 DEF NotifyEmployee, StaffCounted
<1>9. ASSUME NEW n \in notices, MarkEmployeeNotificationRead(n)
      PROVE  UNCHANGED <<staffEdits, announced>>
  BY <1>9 DEF MarkEmployeeNotificationRead
<1> QED
  BY <1>1, <1>2, <1>3, <1>4, <1>5, <1>6, <1>7, <1>8, <1>9 DEF StaffNext, staffVars

\* Employees, the requests that change them, and what was written of them are
\* well formed; a call commits rows about itself, unread, and no others.
THEOREM StaffTypeCorrect == StaffSpec => []StaffTypeOK
<1>1. StaffInit => StaffCounted
  BY StaffAssumption DEF StaffInit, StaffCounted
<1>2. ToldInv /\ StaffTyped /\ StaffCounted => StaffTypeOK
  <2> SUFFICES ASSUME ToldInv, StaffTyped, StaffCounted PROVE StaffTypeOK
    OBVIOUS
  <2>1. ASSUME NEW c \in Tellings
        PROVE  /\ telling[c].at \in {"idle", "telling", "aborted", "done", "undone"}
               /\ telling[c].tx \in BOOLEAN
               /\ telling[c].todo \subseteq telling[c].listed /\ telling[c].listed \subseteq Staff
               /\ telling[c].rows \subseteq [to : Staff, about : {c}, read : {FALSE}]
    <3>1. telling[c] \in Calls /\ CallListed(c) /\ CallWrote(c)
      BY DEF ToldInv, CallInv
    <3>2. ASSUME NEW n \in telling[c].rows PROVE n \in [to : Staff, about : {c}, read : {FALSE}]
      <4>1. n = Row(n.to, c) /\ n.to \in Staff
        BY <3>1 DEF CallWrote, Gone, Calls
      <4>2. PICK e \in Staff : n = Row(e, c)
        BY <4>1
      <4> QED
        BY <4>2 DEF Row
    <3> QED
      BY <3>1, <3>2 DEF CallListed, Calls
  <2> QED
    BY <2>1 DEF StaffTypeOK, StaffTyped, StaffCounted, ToldInv, ClerkRows
<1> QED
  BY <1>1, <1>2, StaffTypedHolds, ToldInvHolds, StaffCountedStep, PTL DEF StaffSpec
=============================================================================
