------------------------------- MODULE Accounts -------------------------------
(***************************************************************************)
(* internal/customer's accounts: registration, verification of the e-mail  *)
(* address, its change, and signing in with Google, by requests that read  *)
(* and write in statements of their own and may stop after any of them.    *)
(* A Google account is known by its (verified) address.  Sessions are      *)
(* modelled in Sessions.                                                   *)
(***************************************************************************)
EXTENDS NullValue, Naturals, FiniteSets

CONSTANTS
  Customers,     \* ids of the rows of customers
  Emails,
  Callers,       \* bound: requests in flight
  ChangeTokens   \* bound: e-mail change tokens ever created

ASSUME AccountAssumption ==
  /\ NULL \notin Customers \cup Emails
  /\ NULL \notin [customer : Customers, email : Emails, used : BOOLEAN]

VARIABLES
  customer,     \* customers: email (NULL: no row), whether there is a password, is_verified
  social,       \* social_accounts: per Google account, the customer
  verifyTokens, \* email_verification_tokens not used: the customer and where it was sent
  changeToken,  \* email_change_tokens: the row, or NULL
  caller,       \* per request: where it is and what it has read
  proven,       \* for the properties: the addresses each customer has shown to hold
  signedIn      \* for the properties: the customers each Google account was signed in as

accountVars == <<customer, social, verifyTokens, changeToken, caller, proven, signedIn>>

NoRow == [email |-> NULL, password |-> FALSE, verified |-> FALSE]
Away == [at |-> "away", customer |-> NULL, email |-> NULL, token |-> NULL]
Steps == {"mail", "mark", "verify", "mailChange", "change", "byEmail", "create", "again", "link"}

AccountTypeOK ==
  /\ customer \in [Customers -> [email : Emails \cup {NULL}, password : BOOLEAN, verified : BOOLEAN]]
  /\ \A c, d \in Customers :
       c # d /\ customer[c].email # NULL => customer[c].email # customer[d].email
  /\ social \in [Emails -> Customers \cup {NULL}]
  /\ verifyTokens \in SUBSET [customer : Customers, email : Emails]
  /\ changeToken \in [ChangeTokens ->
       [customer : Customers, email : Emails, used : BOOLEAN] \cup {NULL}]
  /\ caller \in [Callers -> {Away} \cup
       [at : Steps, customer : Customers \cup {NULL}, email : Emails,
        token : ChangeTokens \cup {NULL}]]
  /\ proven \in [Customers -> SUBSET Emails]
  /\ signedIn \in [Emails -> SUBSET Customers]

AccountInit ==
  /\ customer = [c \in Customers |-> NoRow]
  /\ social = [g \in Emails |-> NULL]
  /\ verifyTokens = {}
  /\ changeToken = [t \in ChangeTokens |-> NULL]
  /\ caller = [r \in Callers |-> Away]
  /\ proven = [c \in Customers |-> {}]
  /\ signedIn = [g \in Emails |-> {}]

\* GetCustomerByEmail: the customer who has the address, or NULL.
GetCustomerByEmail(e) ==
  IF \E c \in Customers : customer[c].email = e
  THEN CHOOSE c \in Customers : customer[c].email = e ELSE NULL

\* The request goes on at a step, or is over.
Proceeds(r, at, c, e, token) ==
  caller' = [caller EXCEPT ![r] = [at |-> at, customer |-> c, email |-> e, token |-> token]]
Answers(r) == caller' = [caller EXCEPT ![r] = Away]
Proves(c, e) == proven' = [proven EXCEPT ![c] = @ \cup {e}]

-----------------------------------------------------------------------------
\* Register: the row, refused by the unique index if the address is taken; then
\* the token.
Register(r, c, e) ==
  /\ caller[r] = Away
  /\ customer[c] = NoRow
  /\ GetCustomerByEmail(e) = NULL
  /\ customer' = [customer EXCEPT ![c] = [email |-> e, password |-> TRUE, verified |-> FALSE]]
  /\ Proceeds(r, "mail", c, e, NULL)
  /\ UNCHANGED <<social, verifyTokens, changeToken, proven, signedIn>>

ResendVerification(r, e) ==
  LET c == GetCustomerByEmail(e) IN
  /\ caller[r] = Away
  /\ c # NULL
  /\ ~customer[c].verified
  /\ Proceeds(r, "mail", c, e, NULL)
  /\ UNCHANGED <<customer, social, verifyTokens, changeToken, proven, signedIn>>

\* CreateEmailVerificationToken, sent to the address read before.
CreateEmailVerificationToken(r) ==
  /\ caller[r].at = "mail"
  /\ verifyTokens' = verifyTokens \cup
       {[customer |-> caller[r].customer, email |-> caller[r].email]}
  /\ Answers(r)
  /\ UNCHANGED <<customer, social, changeToken, proven, signedIn>>

\* Verify: who has the token has received it at the address it was sent to.
Verify(r, t) ==
  /\ caller[r] = Away
  /\ t \in verifyTokens
  /\ Proves(t.customer, t.email)
  /\ Proceeds(r, "mark", t.customer, t.email, NULL)
  /\ UNCHANGED <<customer, social, verifyTokens, changeToken, signedIn>>

\* Another token of the same customer to the same address may remain.
MarkEmailVerificationTokenUsed(r) ==
  /\ caller[r].at = "mark"
  /\ verifyTokens' \in
       {verifyTokens, verifyTokens \ {[customer |-> caller[r].customer, email |-> caller[r].email]}}
  /\ Proceeds(r, "verify", caller[r].customer, caller[r].email, NULL)
  /\ UNCHANGED <<customer, social, changeToken, proven, signedIn>>

VerifyCustomerEmail(r) ==
  /\ caller[r].at = "verify"
  /\ customer' = [customer EXCEPT ![caller[r].customer].verified = TRUE]
  /\ Answers(r)
  /\ UNCHANGED <<social, verifyTokens, changeToken, proven, signedIn>>

-----------------------------------------------------------------------------
\* Mutant: the new address is entered before it is verified.
RequestEntersEmail(r, c, e) ==
  /\ caller[r] = Away
  /\ customer[c].password
  /\ GetCustomerByEmail(e) = NULL
  /\ customer' = [customer EXCEPT ![c].email = e]
  /\ Proceeds(r, "mailChange", c, e, NULL)
  /\ UNCHANGED <<social, verifyTokens, changeToken, proven, signedIn>>

\* RequestEmailChange asks for the password and for an address not taken.
RequestEmailChange(r, c, e) ==
  /\ caller[r] = Away
  /\ customer[c].password
  /\ GetCustomerByEmail(e) = NULL
  /\ Proceeds(r, "mailChange", c, e, NULL)
  /\ UNCHANGED <<customer, social, verifyTokens, changeToken, proven, signedIn>>

CreateEmailChangeToken(r, t) ==
  /\ caller[r].at = "mailChange"
  /\ changeToken[t] = NULL
  /\ changeToken' = [changeToken EXCEPT ![t] =
       [customer |-> caller[r].customer, email |-> caller[r].email, used |-> FALSE]]
  /\ Answers(r)
  /\ UNCHANGED <<customer, social, verifyTokens, proven, signedIn>>

VerifyEmailChange(r, t) ==
  /\ caller[r] = Away
  /\ changeToken[t] # NULL
  /\ ~changeToken[t].used
  /\ Proves(changeToken[t].customer, changeToken[t].email)
  /\ Proceeds(r, "change", changeToken[t].customer, changeToken[t].email, t)
  /\ UNCHANGED <<customer, social, verifyTokens, changeToken, signedIn>>

\* Mutant: the check at the request is relied on.
UpdateToRequestedEmail(r) ==
  /\ caller[r].at = "change"
  /\ customer' = [customer EXCEPT ![caller[r].customer].email = caller[r].email]
  /\ changeToken' = [changeToken EXCEPT ![caller[r].token].used = TRUE]
  /\ Answers(r)
  /\ UNCHANGED <<social, verifyTokens, proven, signedIn>>

\* The transaction.  A taken address is refused and the token stays usable; a
\* token that another request has used since is used again.
UpdateCustomerEmail(r) ==
  /\ caller[r].at = "change"
  /\ \/ /\ GetCustomerByEmail(caller[r].email) \in {NULL, caller[r].customer}
        /\ customer' = [customer EXCEPT ![caller[r].customer].email = caller[r].email]
        /\ changeToken' = [changeToken EXCEPT ![caller[r].token].used = TRUE]
     \/ /\ GetCustomerByEmail(caller[r].email) \notin {NULL, caller[r].customer}
        /\ UNCHANGED <<customer, changeToken>>
  /\ Answers(r)
  /\ UNCHANGED <<social, verifyTokens, proven, signedIn>>

-----------------------------------------------------------------------------
\* The callback signs the Google account in as a customer.
SignsIn(r, g, c) ==
  /\ signedIn' = [signedIn EXCEPT ![g] = @ \cup {c}]
  /\ Answers(r)

\* resolveOAuthCustomer: a Google account that is linked is signed in ...
GetSocialAccount(r, g) ==
  /\ caller[r] = Away
  /\ \/ social[g] # NULL /\ SignsIn(r, g, social[g])
     \/ social[g] = NULL /\ Proceeds(r, "byEmail", NULL, g, NULL) /\ UNCHANGED signedIn
  /\ UNCHANGED <<customer, social, verifyTokens, changeToken, proven>>

\* ... or else the customer with its address is linked to it, who is looked for
\* once more after another request has created them.
FindByEmail(r) ==
  LET c == GetCustomerByEmail(caller[r].email) IN
  /\ caller[r].at \in {"byEmail", "again"}
  /\ \/ c # NULL /\ Proceeds(r, "link", c, caller[r].email, NULL)
     \/ c = NULL /\ caller[r].at = "byEmail" /\ Proceeds(r, "create", NULL, caller[r].email, NULL)
     \/ c = NULL /\ caller[r].at = "again" /\ Answers(r)
  /\ UNCHANGED <<customer, social, verifyTokens, changeToken, proven, signedIn>>

\* Mutant: the new customer and the link are not one transaction.
CreateThenLink(r, c) ==
  LET g == caller[r].email IN
  /\ caller[r].at = "create"
  /\ \/ /\ GetCustomerByEmail(g) = NULL
        /\ customer[c] = NoRow
        /\ customer' = [customer EXCEPT ![c] = [email |-> g, password |-> FALSE, verified |-> TRUE]]
        /\ Proves(c, g)
        /\ Proceeds(r, "link", c, g, NULL)
     \/ /\ GetCustomerByEmail(g) # NULL
        /\ Proceeds(r, "again", NULL, g, NULL)
        /\ UNCHANGED <<customer, proven>>
  /\ UNCHANGED <<social, verifyTokens, changeToken, signedIn>>

\* CreateOAuthCustomer and CreateSocialAccount, committed together; nothing is if
\* the address or the Google account has been taken since.
CreateOAuthCustomer(r, c) ==
  LET g == caller[r].email IN
  /\ caller[r].at = "create"
  /\ \/ /\ GetCustomerByEmail(g) = NULL
        /\ social[g] = NULL
        /\ customer[c] = NoRow
        /\ customer' = [customer EXCEPT ![c] = [email |-> g, password |-> FALSE, verified |-> TRUE]]
        /\ social' = [social EXCEPT ![g] = c]
        /\ Proves(c, g)
        /\ SignsIn(r, g, c)
     \/ /\ GetCustomerByEmail(g) = NULL
        /\ social[g] # NULL
        /\ Answers(r)
        /\ UNCHANGED <<customer, social, proven, signedIn>>
     \/ /\ GetCustomerByEmail(g) # NULL
        /\ Proceeds(r, "again", NULL, g, NULL)
        /\ UNCHANGED <<customer, social, proven, signedIn>>
  /\ UNCHANGED <<verifyTokens, changeToken>>

\* Mutant: a link that is already there is as good as this one.
LinkOrGoOn(r) ==
  LET g == caller[r].email IN
  /\ caller[r].at = "link"
  /\ social' = [social EXCEPT ![g] = IF @ = NULL THEN caller[r].customer ELSE @]
  /\ Proves(caller[r].customer, g)
  /\ SignsIn(r, g, caller[r].customer)
  /\ UNCHANGED <<customer, verifyTokens, changeToken>>

\* CreateSocialAccount for an existing customer; the unique index refuses a
\* second link of the Google account, and the sign-in fails.
CreateSocialAccount(r) ==
  LET g == caller[r].email IN
  /\ caller[r].at = "link"
  /\ \/ /\ social[g] = NULL
        /\ social' = [social EXCEPT ![g] = caller[r].customer]
        /\ Proves(caller[r].customer, g)
        /\ SignsIn(r, g, caller[r].customer)
     \/ /\ social[g] # NULL
        /\ Answers(r)
        /\ UNCHANGED <<social, proven, signedIn>>
  /\ UNCHANGED <<customer, verifyTokens, changeToken>>

\* A reset gives a password also to who signed up with Google; its steps
\* are modelled in Sessions.
GetsPassword(c) ==
  /\ customer[c].email # NULL
  /\ customer' = [customer EXCEPT ![c].password = TRUE]
  /\ UNCHANGED <<social, verifyTokens, changeToken, caller, proven, signedIn>>

\* A statement fails, or the server stops.
CallerFails(r) ==
  /\ caller[r] # Away
  /\ Answers(r)
  /\ UNCHANGED <<customer, social, verifyTokens, changeToken, proven, signedIn>>

AccountNext ==
  \/ \E c \in Customers : GetsPassword(c)
  \/ \E r \in Callers :
       \/ \E e \in Emails :
            \/ \E c \in Customers : Register(r, c, e) \/ RequestEmailChange(r, c, e)
            \/ ResendVerification(r, e)
            \/ GetSocialAccount(r, e)
       \/ \E t \in verifyTokens : Verify(r, t)
       \/ \E t \in ChangeTokens : CreateEmailChangeToken(r, t) \/ VerifyEmailChange(r, t)
       \/ CreateEmailVerificationToken(r) \/ MarkEmailVerificationTokenUsed(r)
       \/ VerifyCustomerEmail(r) \/ UpdateCustomerEmail(r)
       \/ FindByEmail(r) \/ \E c \in Customers : CreateOAuthCustomer(r, c)
       \/ CreateSocialAccount(r)
       \/ CallerFails(r)

AccountSpec == AccountInit /\ [][AccountNext]_accountVars

-----------------------------------------------------------------------------
\* No address is "permanently consumed by an unreachable account": every
\* customer has a password or a Google account that signs in as them.
EveryAccountReachable ==
  \A c \in Customers : customer[c].email # NULL =>
    customer[c].password \/ \E g \in Emails : social[g] = c

\* A verified customer has shown to hold the address they have now, whichever
\* verifications, changes of address and sign-ins overlapped.
VerifiedOwnsEmail ==
  \A c \in Customers : customer[c].verified => customer[c].email \in proven[c]

\* A Google account is signed in as one customer only, the one it is linked to,
\* also when its address has gone from one customer to another.
OneCustomerPerGoogle ==
  \A g \in Emails : signedIn[g] \subseteq {social[g]}
=============================================================================
