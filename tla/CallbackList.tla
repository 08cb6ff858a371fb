---------------------------- MODULE CallbackList ----------------------------
(***************************************************************************)
(* What a callback list promises, without indices: a firing calls the      *)
(* callbacks of the list in order, each once; one that is removed before   *)
(* its turn is not called, one that is added meanwhile is.                 *)
(***************************************************************************)
EXTENDS Integers, Sequences

CONSTANTS Callbacks, Nobody

VARIABLES
  members,  \* the callbacks of the list
  owed,     \* those the current firing still has to call
  current,  \* the one that is being called, or Nobody
  cleared   \* the list was emptied during this firing

Without(s, f) ==
  LET kept[n \in 0 .. Len(s)] ==
        IF n = 0 THEN <<>> ELSE IF s[n] = f THEN kept[n - 1] ELSE Append(kept[n - 1], s[n])
  IN  kept[Len(s)]

ListInit == members = <<>> /\ owed = <<>> /\ current = Nobody /\ cleared = FALSE

(* Outside a firing an addition may start one, with the new callback.       *)
(* Nothing is promised to who joins a firing after the list was emptied.   *)
Join(f) ==
  /\ members' = Append(members, f)
  /\ UNCHANGED cleared
  /\ \/ cleared /\ UNCHANGED <<owed, current>>
     \/ current # Nobody /\ owed' = Append(owed, f) /\ UNCHANGED current
     \/ current = Nobody /\ UNCHANGED <<owed, current>>
     \/ current = Nobody /\ current' = f /\ UNCHANGED owed

Leave(f) ==
  /\ members' = Without(members, f)
  /\ owed' = Without(owed, f)
  /\ UNCHANGED <<current, cleared>>

(* A firing begins, or the next of several does. *)
Begin ==
  /\ owed = <<>>
  /\ members # <<>>
  /\ current' = Head(members)
  /\ owed' = Tail(members)
  /\ cleared' = FALSE
  /\ UNCHANGED members

CallNext ==
  /\ current # Nobody
  /\ owed # <<>>
  /\ current' = Head(owed)
  /\ owed' = Tail(owed)
  /\ UNCHANGED <<members, cleared>>

(* A firing that called everyone ends, and may take the list with it. *)
Complete ==
  /\ owed = <<>>
  /\ current' = Nobody
  /\ members' \in {members, <<>>}
  /\ cleared' = FALSE
  /\ UNCHANGED owed

(* A callback stops the firing, by its answer or by an exception. *)
Break ==
  /\ current # Nobody
  /\ owed' = <<>>
  /\ current' = Nobody
  /\ members' \in {members, <<>>}
  /\ cleared' = FALSE

(* A callback stops one firing and the next begins. *)
BreakAndBegin ==
  /\ current # Nobody
  /\ members # <<>>
  /\ current' = Head(members)
  /\ owed' = Tail(members)
  /\ cleared' = FALSE
  /\ UNCHANGED members

Clear ==
  /\ members' = <<>>
  /\ owed' = <<>>
  /\ cleared' \in {cleared, current # Nobody}
  /\ UNCHANGED current

ListNext ==
  \/ \E f \in Callbacks : Join(f) \/ Leave(f)
  \/ Begin \/ CallNext \/ Complete \/ Break \/ BreakAndBegin \/ Clear

listVars == <<members, owed, current, cleared>>
ListSpec == ListInit /\ [][ListNext]_listVars

=============================================================================
