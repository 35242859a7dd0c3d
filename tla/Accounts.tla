----------------------------- MODULE Accounts -----------------------------
(***************************************************************************)
(* The operators' accounts (userRepository.ts): what a start does to them  *)
(* before the process listens, over a table an earlier start under another *)
(* environment left, and the change of a password by its owner (auth.ts).  *)
(*                                                                         *)
(* bootstrapAdminAccount runs in one piece, but each of its statements     *)
(* commits by itself and the process may die between two.  Deactivating or *)
(* renaming an account is done in the database by hand: no route does it.  *)
(***************************************************************************)
EXTENDS FiniteSets

CONSTANTS
    None, UserIds, Requests,
    Names,          \* user names; an account made at a start has an e-mail after its name
    Strong,         \* passwords of 16 characters and more
    DefaultPassword \* DEV_ONLY_DEFAULT_ADMIN_PASSWORD

ASSUME AccountsAssumption == DefaultPassword \notin Strong \cup {None} /\ None \notin Strong

VARIABLES
    users,   \* the table, by id
    env,     \* NODE_ENV, ADMIN_USERNAME, ADMIN_PASSWORD
    phase,   \* how far the process is
    legacy,  \* legacyPasswordAdmins, those the loop has not reached
    change,  \* requests to change a password, between their awaits
    touched  \* history: accounts changed since the start by someone else than the start

accountsVars == <<users, env, phase, legacy, change, touched>>

Passwords == Strong \cup {DefaultPassword}

\* Every account the program makes is an administrator's.
User == [username : Names, email : Names, password : Passwords, active : BOOLEAN]

ASSUME NoUserAssumption == None \notin User

\* config/env.ts refuses production without a strong ADMIN_PASSWORD.
Environment ==
    {e \in [production : BOOLEAN, username : Names, password : Passwords \cup {None}] :
       e.production => e.password \in Strong}

NoChange == [id |-> None, known |-> None, new |-> None]

Rows == {i \in UserIds : users[i] # None}

AccountsTypeOK ==
    /\ users \in [UserIds -> User \cup {None}]
    /\ env \in Environment
    /\ phase \in {"rotating", "creating", "up", "down", "failed"}
    /\ legacy \in SUBSET Rows
    /\ change \in [Requests -> {NoChange} \cup [id : UserIds, known : Passwords, new : Passwords]]
    /\ touched \in SUBSET UserIds

\* UNIQUE(username), UNIQUE(email)
NamesUnique ==
    \A i, j \in Rows : i # j => /\ users[i].username # users[j].username
                                /\ users[i].email # users[j].email

\* Seeded fault: ADMIN_PASSWORD is given to every active administrator.
AllAdmins == {i \in Rows : users[i].active}

LegacyPasswordAdmins ==
    {i \in Rows : users[i].active /\ users[i].password = DefaultPassword}

\* The list is made before anything is written.
Starting(e) ==
    /\ env' = e
    /\ phase' = "rotating"
    /\ legacy' = IF e.password = None THEN {} ELSE LegacyPasswordAdmins
    /\ change' = [r \in Requests |-> NoChange]
    /\ touched' = {}

\* A file without accounts, or with those an older release made.
AccountsInit ==
    /\ users \in [UserIds -> {None} \cup {[username |-> n, email |-> n,
                                           password |-> DefaultPassword,
                                           active |-> TRUE] : n \in Names}]
    /\ NamesUnique
    /\ env \in Environment
    /\ phase = "down" /\ legacy = {} /\ touched = {}
    /\ change = [r \in Requests |-> NoChange]

---------------------------------------------------------------------------
\* bootstrapAdminAccount

CreateApp ==
    /\ phase \in {"down", "failed"}
    /\ \E e \in Environment : Starting(e)
    /\ UNCHANGED users

Rotate(i) ==
    /\ phase = "rotating" /\ i \in legacy
    /\ users' = [users EXCEPT ![i].password = env.password]
    /\ legacy' = legacy \ {i}
    /\ UNCHANGED <<env, phase, change, touched>>

\* Seeded fault: the configured account is looked up before the rotation ends.
RotationCutShort ==
    /\ phase = "rotating"
    /\ phase' = "creating" /\ legacy' = {}
    /\ UNCHANGED <<users, env, change, touched>>

RotationDone ==
    /\ phase = "rotating" /\ legacy = {}
    /\ phase' = "creating"
    /\ UNCHANGED <<users, env, legacy, change, touched>>

\* Seeded fault: any account at all will do.
SomeAccount == {i \in Rows : users[i].active}

\* getByUsername sees active accounts only.
ConfiguredAdmin == {i \in Rows : users[i].active /\ users[i].username = env.username}

Collides(i) == users[i].username = env.username \/ users[i].email = env.username

KeepConfiguredAdmin ==
    /\ phase = "creating" /\ ConfiguredAdmin # {}
    /\ phase' = "up"
    /\ UNCHANGED <<users, env, legacy, change, touched>>

InitialPassword == IF env.password = None THEN DefaultPassword ELSE env.password

CreateAdmin(i) ==
    /\ phase = "creating" /\ ConfiguredAdmin = {}
    /\ i \notin Rows /\ \A j \in Rows : ~Collides(j)
    /\ users' = [users EXCEPT ![i] =
                   [username |-> env.username, email |-> env.username,
                    password |-> InitialPassword, active |-> TRUE]]
    /\ phase' = "up"
    /\ UNCHANGED <<env, legacy, change, touched>>

\* The INSERT meets a UNIQUE constraint: createApp throws and the process exits.
FailToCreate ==
    /\ phase = "creating" /\ ConfiguredAdmin = {}
    /\ \E j \in Rows : Collides(j)
    /\ phase' = "failed"
    /\ UNCHANGED <<users, env, legacy, change, touched>>

---------------------------------------------------------------------------
\* POST /auth/change-password

\* requireApiAuth has loaded the active account of the session; the password
\* given is compared with the loaded hash, and the new one hashed, in awaits.
StartChange(r, i) ==
    /\ phase = "up" /\ change[r] = NoChange
    /\ i \in Rows /\ users[i].active
    /\ \E p \in Passwords :
         change' = [change EXCEPT ![r] = [id |-> i, known |-> users[i].password, new |-> p]]
    /\ UNCHANGED <<users, env, phase, legacy, touched>>

\* UPDATE ... WHERE id, whatever the row holds by now.
EndChange(r) ==
    LET i == change[r].id IN
    /\ change[r] # NoChange
    /\ users' = [users EXCEPT ![i].password = change[r].new]
    /\ change' = [change EXCEPT ![r] = NoChange]
    /\ touched' = touched \cup {i}
    /\ UNCHANGED <<env, phase, legacy>>

---------------------------------------------------------------------------
\* In the database, by hand, and the end of a process.

EditByHand(i) ==
    /\ phase # "rotating" /\ phase # "creating"
    /\ i \in Rows
    /\ \E b \in BOOLEAN, n \in Names :
         /\ \A j \in Rows \ {i} : users[j].username # n
         /\ users' = [users EXCEPT ![i].active = b, ![i].username = n]
    /\ touched' = touched \cup {i}
    /\ UNCHANGED <<env, phase, legacy, change>>

ProcessDies ==
    /\ phase # "down"
    /\ phase' = "down" /\ legacy' = {}
    /\ change' = [r \in Requests |-> NoChange]
    /\ UNCHANGED <<users, env, touched>>

Boot ==
    \/ CreateApp \/ RotationDone \/ KeepConfiguredAdmin \/ FailToCreate
    \/ \E i \in UserIds : Rotate(i) \/ CreateAdmin(i)

AccountsNext ==
    \/ Boot
    \/ \E r \in Requests : EndChange(r) \/ \E i \in UserIds : StartChange(r, i)
    \/ \E i \in UserIds : EditByHand(i)
    \/ ProcessDies

AccountsSpec == AccountsInit /\ [][AccountsNext]_accountsVars

---------------------------------------------------------------------------
\* In production no active administrator has the default password while the
\* process serves, wherever earlier starts died and under whatever environment
\* they ran, unless it was chosen or the account reactivated since the start.
DefaultPasswordGone ==
    phase = "up" /\ env.production =>
        \A i \in Rows \ touched : users[i].active => users[i].password # DefaultPassword

\* Someone can log in as the configured administrator once the process serves
\* (the look-up, the INSERT), as long as no account is edited.
ConfiguredAdminAtHand ==
    phase = "up" =>
        \/ \E i \in Rows : users[i].active /\ users[i].username = env.username
        \/ touched # {}

\* A password other than the default one is changed by its owner only, never by
\* a start (the comment of bootstrapAdminAccount), and no start changes whether
\* an account is active.
OwnPasswordKept ==
    [][\A i \in Rows :
         /\ users'[i] # None
         /\ users'[i].password # users[i].password /\ users[i].password # DefaultPassword =>
              phase = "up" /\ \E r \in Requests : change[r].id = i
         /\ users'[i].active # users[i].active => i \in touched']_accountsVars
=============================================================================
