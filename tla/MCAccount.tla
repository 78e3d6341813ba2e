------------------------------ MODULE MCAccount ------------------------------
(***************************************************************************)
(* Two addresses (the same set serves for both kinds), two tokens and two  *)
(* workers, which differ in the requests they serve.                       *)
(***************************************************************************)
EXTENDS AccountSafety, TLC

\* The pages of the profile one at a time, while the wallet changes, codes are
\* guessed and a process that guesses dies.
OnePageAtATime ==
    "w1" :> {"send", "edit", "verify", "wrongCode"} @@ "w2" :> {"wrongCode", "wallet", "crash"}

\* The profile is saved while the wallet changes.
EditAndWallet == "w1" :> {"edit"} @@ "w2" :> {"wallet"}

\* What a link or code says no longer matters once it is used or has expired, and
\* every count that locks out is like another.
LockedOut(n) == IF n < MaxAttempts THEN n ELSE MaxAttempts

ViewOfTodo(todo) ==
    IF todo # <<>> /\ Head(todo)[1] = "write" THEN <<<<"write", LockedOut(Head(todo)[2])>>>> ELSE todo

WhatMatters ==
    <<user, booked, [t \in Tokens |-> IF Usable(t) THEN tokens[t] ELSE NoToken],
      LockedOut(attempts), tried,
      [w \in Workers |-> [user |-> request[w].user, todo |-> ViewOfTodo(request[w].todo)]], proven>>

Interchangeable == Permutations(Tokens) \cup Permutations(Addresses)
=============================================================================
