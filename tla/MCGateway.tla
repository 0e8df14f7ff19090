----------------------------- MODULE MCGateway ------------------------------
(* Four requests.  A username may be typed with a space before it, or be
   absent; passwords are too short for the gateway, too short for
   auth-service, weak, right, or too long for bcrypt. *)
EXTENDS Gateway, TLC

Typed == {"ann", " ann", ""}
Trimmed == [u \in Typed |-> IF u = " ann" THEN "ann" ELSE u]
SomePasswords ==
    {[length |-> n, strong |-> TRUE] : n \in {5, 7, 8, 73}}
        \cup {[length |-> 8, strong |-> FALSE]}

RequestSymmetry == Permutations(Calls)

=============================================================================
