------------------------------ MODULE OrderBoard ------------------------------
(***************************************************************************)
(* What the shared DetailProduct records promise to the two apps, seen     *)
(* from the database alone: each order is open or held by one shipper, and *)
(* changes hands one write at a time.  Two promises are stated.            *)
(*                                                                         *)
(* BoardSpec   the last writer wins: anybody may take an order, from       *)
(*             anybody, and may put it back.  The apps implement this one. *)
(* StrictSpec  an order that is held cannot be taken until its holder has  *)
(*             put it back.  The report claims this one.                   *)
(***************************************************************************)
CONSTANTS
  Users,    \* shippers' uids
  Orders,   \* idDetailProduct keys
  NoUser    \* the empty uid of an order nobody holds

VARIABLE board   \* order -> the [uid, status] fields of its DetailProduct record

Posted   == [uid |-> NoUser, status |-> "posted"]     \* "chưa nhận", by the shop
TakenBy(u) == [uid |-> u, status |-> "taken"]         \* "Đã nhận", by a shipper
Released == [uid |-> NoUser, status |-> "released"]   \* "Chưa nhận", by a shipper

BoardInit == board = [o \in Orders |-> Posted]

Take(o, u) == board' = [board EXCEPT ![o] = TakenBy(u)]
PutBack(o) == board' = [board EXCEPT ![o] = Released]

BoardNext == \E o \in Orders : PutBack(o) \/ \E u \in Users : Take(o, u)
BoardSpec == BoardInit /\ [][BoardNext]_board

Held(o) == board[o].uid # NoUser

StrictNext == \E o \in Orders :
  \/ Held(o) /\ PutBack(o)
  \/ ~Held(o) /\ \E u \in Users : Take(o, u)
StrictSpec == BoardInit /\ [][StrictNext]_board
===============================================================================
