------------------------------ MODULE Accounts ------------------------------
(***************************************************************************)
(* Registration, login and Google sign-in of one e-mail address, up to the *)
(* refresh session the module Sessions keeps.  A form is one request: it   *)
(* reads the user's row, then the codes in Redis, and writes both later.   *)
(* The code a confirmation carries is right; a wrong one changes nothing.  *)
(***************************************************************************)
EXTENDS Sessions

CONSTANTS
    Forms,       \* requests that may be in flight at once
    Passwords,
    Codes        \* otp sessions that may be made (bound)

\* A row is not the absence of one.
ASSUME AccountsAssumption ==
    Nil \notin [password : Passwords \cup {Nil}, google : BOOLEAN]

VARIABLES
    row,       \* the row of users: Nil or its password and provider
    codes,     \* live keys otp:<session>: the code and the password it was asked with
    byEmail,   \* the value of otp:<email>, possibly of a session long gone
    made,      \* codes generated so far
    mailed,    \* codes that reached the mailbox
    form,      \* the requests in flight
    orderly    \* history: no two forms were ever in flight together

accountVars == <<row, codes, byEmail, made, mailed, form, orderly>>
vars == <<sessionVars, accountVars>>

Blank == [pc |-> "idle", goal |-> "none", by |-> Nil, password |-> Nil,
          code |-> Nil, found |-> FALSE]

AccountsInit ==
    /\ SessionsInit /\ active = FALSE
    /\ row = Nil /\ codes = [c \in {} |-> Nil] /\ byEmail = Nil
    /\ made = {} /\ mailed = {}
    /\ form = [f \in Forms |-> Blank] /\ orderly = TRUE

\* get_by_email, get_by_email_and_active.
KnownUser == row # Nil
ActiveUser == KnownUser /\ active

\* get_by_owner: the otp of the address, if its session is alive.
CodePending == byEmail \in DOMAIN codes

Without(c) == [d \in DOMAIN codes \ {c} |-> codes[d]]

-----------------------------------------------------------------------------
Open(f, entry) ==
    /\ form[f].pc = "idle"
    /\ form' = [form EXCEPT ![f] = entry]
    /\ orderly' = (orderly /\ \A g \in Forms : form[g].pc = "idle")
    /\ UNCHANGED <<sessionVars, row, codes, byEmail, made, mailed>>

Step(f, pc) == form' = [form EXCEPT ![f].pc = pc]
Close(f) == form' = [form EXCEPT ![f] = Blank]

\* UserAuthenticationUC.register and login: the user's row.
Register(f, p) ==
    /\ ~ActiveUser
    /\ Open(f, [Blank EXCEPT !.pc = "otp", !.goal = "register",
                             !.password = p, !.found = KnownUser])

Login(f, p) ==
    /\ ActiveUser
    /\ ~row.google /\ row.password = p
    /\ Open(f, [Blank EXCEPT !.pc = "otp", !.goal = "login", !.password = p])

\* Wrong on purpose: a live code does not stop a second one.
CheckNothing(f) ==
    /\ form[f].pc = "otp"
    /\ Step(f, IF form[f].goal = "register" THEN "save" ELSE "code")
    /\ UNCHANGED <<sessionVars, row, codes, byEmail, made, mailed, orderly>>

\* is_otp_not_expired refuses a second code while one is alive.
CheckCode(f) ==
    /\ form[f].pc = "otp"
    /\ IF CodePending THEN Close(f)
       ELSE Step(f, IF form[f].goal = "register" THEN "save" ELSE "code")
    /\ UNCHANGED <<sessionVars, row, codes, byEmail, made, mailed, orderly>>

\* save and commit: UPDATE of the row read before, or INSERT, which fails when
\* another request was first (users.email is unique).
SaveUser(f) ==
    /\ form[f].pc = "save"
    /\ IF form[f].found
       THEN /\ row' = [row EXCEPT !.password = form[f].password]
            /\ Step(f, "code") /\ UNCHANGED active
       ELSE IF row = Nil
       THEN /\ row' = [password |-> form[f].password, google |-> FALSE]
            /\ active' = FALSE /\ Step(f, "code")
       ELSE /\ Close(f) /\ UNCHANGED <<row, active>>
    /\ UNCHANGED <<keys, listed, scores, cookie, req, issued, spent, exchanged, fails, solo>>
    /\ UNCHANGED <<codes, byEmail, made, mailed, orderly>>

\* OtpAuthSession.create: otp:<session>, then otp:<email>; then the mail task.
StoreCode(f) ==
    /\ form[f].pc = "code"
    /\ \E c \in Codes \ made :
          /\ made' = made \cup {c}
          /\ codes' = [d \in DOMAIN codes \cup {c} |->
                          IF d = c THEN form[f].password ELSE codes[d]]
          /\ form' = [form EXCEPT ![f].pc = "email", ![f].code = c]
    /\ UNCHANGED <<sessionVars, row, byEmail, mailed, orderly>>

StoreEmail(f) ==
    /\ form[f].pc = "email"
    /\ byEmail' = form[f].code
    /\ Step(f, "mail")
    /\ UNCHANGED <<sessionVars, row, codes, made, mailed, orderly>>

SendMail(f) ==
    /\ form[f].pc = "mail"
    /\ mailed' = mailed \cup {form[f].code}
    /\ Close(f)
    /\ UNCHANGED <<sessionVars, row, codes, byEmail, made, orderly>>

-----------------------------------------------------------------------------
\* UserAuthorizationUC: _get_valid_otp of login_confirm and register_confirm.
Confirm(f, b, c, goal) ==
    /\ c \in DOMAIN codes /\ c \in mailed
    /\ Open(f, [Blank EXCEPT !.pc = "user", !.goal = goal, !.by = b,
                             !.code = c, !.password = codes[c]])

\* The row must be active for a login and inactive for a registration.
ReadRow(f) ==
    /\ form[f].pc = "user"
    /\ IF ~KnownUser \/ (active <=> form[f].goal = "register") THEN Close(f)
       ELSE Step(f, IF form[f].goal = "register" THEN "activate" ELSE "forget")
    /\ UNCHANGED <<sessionVars, row, codes, byEmail, made, mailed, orderly>>

Activate(f) ==
    /\ form[f].pc = "activate"
    /\ active' = TRUE
    /\ Step(f, "forget")
    /\ UNCHANGED <<keys, listed, scores, cookie, req, issued, spent, exchanged, fails, solo>>
    /\ UNCHANGED <<row, codes, byEmail, made, mailed, orderly>>

\* delete: one DEL of both keys; the request goes on in Sessions.
ForgetCode(f, r) ==
    /\ form[f].pc = "forget"
    /\ codes' = Without(form[f].code)
    /\ byEmail' = Nil
    /\ SignIn(r, form[f].by)
    /\ Close(f)
    /\ UNCHANGED <<row, made, mailed, orderly>>

\* UserGoogleAuthorizationUC.authorize: an address without provider is made
\* Google's, whether or not its registration was confirmed.
Google(f, b) ==
    Open(f, [Blank EXCEPT !.pc = "google", !.goal = "google", !.by = b, !.found = KnownUser])

SaveGoogle(f) ==
    /\ form[f].pc = "google"
    /\ IF form[f].found
       THEN row' = [row EXCEPT !.google = TRUE] /\ Step(f, "enter") /\ UNCHANGED active
       ELSE IF row = Nil
       THEN row' = [password |-> Nil, google |-> TRUE] /\ active' = TRUE /\ Step(f, "enter")
       ELSE Close(f) /\ UNCHANGED <<row, active>>
    /\ UNCHANGED <<keys, listed, scores, cookie, req, issued, spent, exchanged, fails, solo>>
    /\ UNCHANGED <<codes, byEmail, made, mailed, orderly>>

EnterByGoogle(f, r) ==
    /\ form[f].pc = "enter"
    /\ SignIn(r, form[f].by)
    /\ Close(f)
    /\ UNCHANGED <<row, codes, byEmail, made, mailed, orderly>>

-----------------------------------------------------------------------------
\* A form dies half way, or a code times out.
Abandon(f) ==
    /\ form[f].pc # "idle" /\ fails < MaxFails
    /\ fails' = fails + 1
    /\ Close(f)
    /\ UNCHANGED <<keys, listed, scores, cookie, req, issued, spent, exchanged, active, solo>>
    /\ UNCHANGED <<row, codes, byEmail, made, mailed, orderly>>

Expire(c) ==
    /\ c \in DOMAIN codes
    /\ codes' = Without(c)
    /\ UNCHANGED <<sessionVars, row, byEmail, made, mailed, form, orderly>>

Fill(f) ==
    \/ \E p \in Passwords : Register(f, p) \/ Login(f, p)
    \/ CheckCode(f) \/ SaveUser(f) \/ StoreCode(f) \/ StoreEmail(f) \/ SendMail(f)
    \/ \E b \in Browsers :
         \/ \E c \in Codes, goal \in {"login", "register"} : Confirm(f, b, c, goal)
         \/ Google(f, b)
    \/ ReadRow(f) \/ Activate(f) \/ SaveGoogle(f)
    \/ \E r \in Requests : ForgetCode(f, r) \/ EnterByGoogle(f, r)
    \/ Abandon(f)

Next ==
    \/ \E f \in Forms : Fill(f)
    \/ \E c \in Codes : Expire(c)
    \/ /\ \/ \E r \in Requests, b \in Browsers : UseCookie(r, b)
          \/ \E r \in Requests : Work(r)
          \/ \E t \in Tokens : TimeOut(t)
          \/ KnownUser /\ SetActive
       /\ UNCHANGED accountVars

Spec == AccountsInit /\ [][Next]_vars

-----------------------------------------------------------------------------
TypeOK ==
    /\ SessionsTypeOK
    /\ row = Nil => ~active
    /\ row \in {Nil} \cup [password : Passwords \cup {Nil}, google : BOOLEAN]
    /\ DOMAIN codes \subseteq made /\ mailed \subseteq made /\ made \subseteq Codes
    /\ byEmail \in made \cup {Nil}
    /\ \A f \in Forms : form[f].code \in made \cup {Nil}

\* An address becomes active with the password its code was asked with, although
\* every new registration overwrites the row before anyone confirms it.
ActivatedAsConfirmed ==
    \A f \in Forms :
        orderly /\ form[f].pc = "activate" => row.password = form[f].password
=============================================================================
