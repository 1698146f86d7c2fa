-------------------------------- MODULE Accounts --------------------------------
(***************************************************************************)
(* What the sign-in code of both apps shares: the authentication service,  *)
(* which knows an account from the moment it is created or first signs in  *)
(* with Google, and the "Login" records of the database, which make an     *)
(* account a member.  Neither app ever deletes one or the other.           *)
(***************************************************************************)
EXTENDS Naturals, Sequences, FiniteSets, Selection

CONSTANTS
  Persons,   \* e-mail addresses, one uid each
  Nobody     \* nothing under a key of UserDefaults

ASSUME AccountsAssumption == Nobody \notin Persons

VARIABLES
  auth,      \* persons the authentication service has an account for
  logins     \* persons with a Login record in the database

service == <<auth, logins>>

(* Mutant: an address can be registered again.                              *)
CreateUserAgain(p) == auth' = auth \cup {p}

(* createUser: refused for an address that has an account already.          *)
CreateUser(p) == p \notin auth /\ auth' = auth \cup {p}

(* A Google credential signs its owner in, and creates the account if there *)
(* is none.                                                                 *)
SignInWithGoogle(p) == auth' = auth \cup {p}

(* A client's write of a Login record reaches the database.                 *)
RecordLogin(p) == logins' = logins \cup {p}
================================================================================
