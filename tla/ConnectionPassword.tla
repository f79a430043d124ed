------------------------- MODULE ConnectionPassword -------------------------
(***************************************************************************)
(* The connection password of the server (connection_password.go and       *)
(* auth_store.go): a change is a compare-and-set in the auth bucket whose  *)
(* answer may be lost, then a publication under Server.mu; a connection    *)
(* authenticates against the published password long before it is          *)
(* admitted.  A password is its number; 0 is none: admission is gated.     *)
(***************************************************************************)
EXTENDS Integers

CONSTANT Members   \* who connects

VARIABLES stored,     \* the auth bucket
          published,  \* s.passwordAuth
          setter,     \* SetConnectionPassword: its place, what it read and will publish
          auth        \* servePeer: the password each connection passed, 0 = none

passwords == <<stored, published, setter, auth>>

NoSetter == [at |-> "idle", next |-> 0]

PasswordInit ==
    /\ stored = 1 /\ published = 1 /\ setter = NoSetter
    /\ auth = [m \in Members |-> 0]

\* With the password unknown there is no revision to edit.
SetPassword ==
    /\ setter.at = "idle" /\ published # 0
    /\ setter' = [at |-> "replace", next |-> 0]
    /\ UNCHANGED <<stored, published, auth>>

Reads(p) == setter' = [at |-> "publish", next |-> p]

\* replacePassword: the read fails, or the caller is gone, or the write is
\* answered, or no answer comes, whether or not it was done.
Replace ==
    /\ setter.at = "replace"
    /\ \/ Reads(0) /\ stored' = stored
       \/ Reads(published) /\ stored' = stored
       \/ Reads(stored + 1) /\ stored' = stored + 1
       \/ setter' = [setter EXCEPT !.at = "readback"] /\ stored' \in {stored, stored + 1}
    /\ UNCHANGED <<published, auth>>

\* Slip: a write without an answer counts as not done.
ReadbackAssumes ==
    /\ setter.at = "readback"
    /\ Reads(published)
    /\ UNCHANGED <<stored, published, auth>>

\* The uncertain outcome is read back; if that fails too it stays unknown.
Readback ==
    /\ setter.at = "readback"
    /\ Reads(stored) \/ Reads(0)
    /\ UNCHANGED <<stored, published, auth>>

Publish ==
    /\ setter.at = "publish"
    /\ published' = setter.next /\ setter' = NoSetter
    /\ UNCHANGED <<stored, auth>>

\* servePeer up to the hello: the password is verified against what was
\* published when the connection came in.
Authenticate(m) ==
    /\ auth[m] = 0 /\ published # 0
    /\ auth' = [auth EXCEPT ![m] = published]
    /\ UNCHANGED <<stored, published, setter>>

Replacing == Replace \/ Readback \/ Publish
=============================================================================
