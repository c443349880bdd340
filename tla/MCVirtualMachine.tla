---------------------------- MODULE MCVirtualMachine ------------------------
(* A machine with a device that is one of several kinds, which is used, and *)
(* a second one that is only asked about; requests as compositors make them.*)
EXTENDS VirtualMachine

CONSTANTS p1, p2, semA, semB

Combined == [combined |-> TRUE, graphics |-> TRUE]
Graphics == [combined |-> FALSE, graphics |-> TRUE]
Every == <<"swapchain", "present_id", "present_wait", "global_priority", "timeline", "semaphore_fd">>
All == ToSet(Every)

TwoFamilies == [exts |-> <<"swapchain">>, families |-> <<Combined, Graphics>>]
MCHosts == p1 :> {[exts |-> <<"swapchain", "timeline">>, families |-> <<Combined>>],
                  [exts |-> Every, families |-> <<Combined>>], TwoFamilies}
        @@ p2 :> {[TwoFamilies EXCEPT !.exts = <<"swapchain", "global_priority">>]}

Queue(f, chain) == [family |-> f, flags |-> FALSE, chain |-> chain]
Ask0 == <<Queue(0, <<>>)>>
Ask1 == <<Queue(1, <<>>)>>
AskBoth == <<Queue(0, <<"other", "priority", "other">>), Queue(1, <<"priority">>)>>
Long == <<"other", "idFeature", "waitFeature", "other", "timelineFeature">>

Request(exts, queues, chain) == [exts |-> exts, queues |-> queues, chain |-> chain]
MCRequests == p1 :> {Request({}, Ask1, <<>>), Request(All, Ask0, <<"idFeature">>),
                     Request(All, AskBoth, Long), Request({}, AskBoth, <<>>)}
           @@ p2 :> {}
MCPresents == {<<>>, <<"presentId">>, <<"other", "presentId">>, <<"presentId", "other">>}
MCCapacities == p1 :> {1, 5, 6, NoArray} @@ p2 :> {NoArray}

(* Hosts with and without displays of their own. *)
MCLoaders == {<<"surface", "xcb">>, <<"display", "xcb">>, <<"surface", "xlib">>}

(* Two processes that share a semaphore. *)
MCProcess == [s \in Semaphores |-> IF s = semA THEN "A" ELSE "B"]
=============================================================================
