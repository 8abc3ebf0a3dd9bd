---------------------------- MODULE BlockEventsMC ----------------------------
(***************************************************************************)
(* A universe for BlockEvents: two suppliers and one application.  c1 and  *)
(* c2 are claims of one session that differ in their service only, o1 and  *)
(* o2 overservice events of one pair, one with a coin that does not parse. *)
(* An event carries the attribute of its message and mostly "mode", which  *)
(* the node adds; bad has one the decoder does not know and cannot parse.  *)
(***************************************************************************)
EXTENDS BlockEvents

Event(kind, supplier, service, attrs, dists, expected, effective) ==
  [kind |-> kind, supplier |-> supplier, app |-> "a", session |-> 1, service |-> service,
   attrs |-> attrs, rewards |-> dists, expected |-> expected, effective |-> effective]

Share(address, amount) == [address |-> address, amount |-> amount]

c1 == Event("settled", "s1", "x", {"proto", "mode"}, {Share("s1", 3), Share("owner", 1)}, 0, 0)
c2 == Event("settled", "s1", "y", {"proto"}, {Share("s1", 5)}, 0, 0)
c3 == Event("settled", "s2", "x", {"proto", "mode"}, {Share("s2", 2)}, 0, 0)
e1 == Event("expired", "s1", "x", {"proto", "mode"}, {}, 0, 0)
o1 == Event("overserviced", "s1", "", {"proto", "mode"}, {}, 5, 3)
o2 == Event("overserviced", "s1", "", {"proto", "mode"}, {}, Garbled, 2)
r2 == Event("reimbursement", "s2", "x", {"proto", "mode"}, {}, 0, 0)
bad == Event("settled", "s2", "y", {"proto", "other"}, {Share("s2", 9)}, 0, 0)
transfer == Event("transfer", "s1", "", {"mode"}, {}, 0, 0)

MCUniverse == {c1, c2, c3, e1, o1, o2, r2, bad, transfer}

MCSupplierLists == {{}, {"s1"}}
=============================================================================
