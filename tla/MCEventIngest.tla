--------------------------- MODULE MCEventIngest ----------------------------
(***************************************************************************)
(* EventIngest on small instances.  One tick is half an hour, so the hour  *)
(* of the rules is two ticks; each .cfg says how many the dedup window is. *)
(***************************************************************************)
EXTENDS EventIngest, TLC

ThreadSymmetry == Permutations(Threads)

Connect(h, d) ==
    [hostname |-> h, device_id |-> d, event_type |-> "connected", transfer_bytes |-> 0,
     user |-> "", hour |-> 12, utc_offset |-> <<>>]
Disconnect(h, d) == [Connect(h, d) EXCEPT !.event_type = "disconnected"]
Transfer(h, d) == [Connect(h, d) EXCEPT !.event_type = "data_transfer", !.transfer_bytes = 1]

(* One device plugged in after hours and pulled out, and plugged in by a   *)
(* user on another host.                                                   *)
PlugEvents ==
    {[Connect("h1", "d1") EXCEPT !.hour = 23], Disconnect("h1", "d1"),
     [Connect("h2", "d1") EXCEPT !.user = "u1"]}

(* Transfers of two devices on one host, and a connection by a user with   *)
(* an offset that makes it night there.                                    *)
TransferEvents == {Transfer("h1", "d1"), Transfer("h1", "d2"),
     [Connect("h1", "d1") EXCEPT !.user = "u1", !.utc_offset = <<11>>]}
=============================================================================
