------------------------------ MODULE JobSlots ------------------------------
(***************************************************************************)
(* What the job manager promises the handlers: a key (an instance and a    *)
(* kind of job) is either free or taken, and is taken by one job at a time. *)
(***************************************************************************)

CONSTANT Keys

VARIABLE busy   \* the keys that are taken

Init == busy = {}

Begin(k) == /\ k \in Keys \ busy
            /\ busy' = busy \cup {k}

End(k) == /\ k \in busy
          /\ busy' = busy \ {k}

Next == \E k \in Keys : Begin(k) \/ End(k)

Spec == Init /\ [][Next]_busy
=============================================================================
