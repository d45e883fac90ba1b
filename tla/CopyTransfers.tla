---------------------------- MODULE CopyTransfers ----------------------------
(***************************************************************************)
(* copy-fu, the transfers: the offer other clients make, the descriptors   *)
(* it is received through, those our own selection is sent through, and    *)
(* the main loop that polls and serves them.                               *)
(*                                                                         *)
(* What a pipe holds is counted in buffers of 4096 bytes, as much as one   *)
(* call of read takes.                                                     *)
(***************************************************************************)
EXTENDS CopyFu, SequencesExt

CONSTANTS Fds,           (* descriptors the transfers may get             *)
          Display,       (* the descriptor of the connection              *)
          Offers,        (* identities of wl_data_offer objects           *)
          Types,         (* mime types                                    *)
          Room           (* buffers that fit into a pipe                  *)

ASSUME CopyTransfersAssumption ==
  Display \notin Fds /\ NULL \notin Offers /\ Room \in Nat \ {0}

VARIABLES urandom,      (* /dev/urandom could be opened                     *)
          fd_set,       (* the polled descriptors, the display's first      *)
          open,         (* descriptors this program holds for transfers     *)
          data_offer,   (* the global pointer                               *)
          offer_list,   (* the types of the offer, the last one first       *)
          alive,        (* not killed by SIGPIPE                            *)
          pipes         (* what the other end of each descriptor is up to   *)

tableVars == <<fd_set, open, pipes>>
transferVars == <<mode, urandom, tableVars, data_offer, offer_list, alive, events>>

Polled == [fd : Fds \cup {Display}, send : BOOLEAN, recv : BOOLEAN, refcount : Nat]

(* The fd_extra of a transfer has one direction, and so one reference. *)
polled(fd, send) == [fd |-> fd, send |-> send, recv |-> ~send, refcount |-> 1]

DisplayEntry == [fd |-> Display, send |-> FALSE, recv |-> FALSE, refcount |-> 1]

Transfers == {fd_set[k].fd : k \in 2 .. Len(fd_set)}
Receiving == {fd_set[k].fd : k \in {j \in DOMAIN fd_set : fd_set[j].recv}}
Requested == {events[k].fd : k \in {j \in DOMAIN events : events[j].type = "send"}}

Connected == [peer |-> TRUE, held |-> 0]
Unconnected == [peer |-> FALSE, held |-> 0]

(* pipes once the descriptors in fds lead to p. *)
Piped(fds, p) == [fd \in Fds |-> IF fd \in fds THEN p ELSE pipes[fd]]

Announced == {s \in UNION {[1 .. n -> Types] : n \in 0 .. Cardinality(Types)} :
                IsInjective(s)}

(* Events are data_offer (offer), offer (mime), selection (offer, mimes) and  *)
(* send (fd).                                                                 *)

-------------------------------------------------------------------------------
(* Handlers. *)
HandleAlive(type) == /\ alive
                     /\ Handle(type)
                     /\ UNCHANGED <<urandom, alive>>

data_source_send == /\ HandleAlive("send")
                    /\ fd_set' = Append(fd_set, polled(Head(events).fd, TRUE))
                    /\ UNCHANGED <<open, pipes, data_offer, offer_list>>

(* The list at a new offer; the mutant keeps the types of the old one. *)
Cleared_kept == offer_list

Cleared == IF data_offer = NULL THEN offer_list ELSE <<>>

data_device_data_offer == /\ HandleAlive("data_offer")
                          /\ data_offer' = Head(events).offer
                          /\ offer_list' = Cleared
                          /\ UNCHANGED tableVars

data_offer_offer == /\ HandleAlive("offer")
                    /\ offer_list' = <<Head(events).mime>> \o offer_list
                    /\ UNCHANGED <<tableVars, data_offer>>

(* The descriptors that n calls of pipe, socketpair or open return: each    *)
(* may fail.                                                                *)
Opened(n) == {fds \in UNION {[1 .. k -> Fds \ open] : k \in 0 .. n} : IsInjective(fds)}

(* receive_offer keeps the reading end of a pipe; the mutant opens it and    *)
(* does not poll it.                                                        *)
receive_unpolled(fds) == /\ open' = open \cup Range(fds)
                         /\ pipes' = Piped(Range(fds), Connected)
                         /\ UNCHANGED fd_set

receive_offers(fds) == /\ open' = open \cup Range(fds)
                       /\ pipes' = Piped(Range(fds), Connected)
                       /\ fd_set' = fd_set \o [k \in DOMAIN fds |-> polled(fds[k], FALSE)]

(* paste_result.txt is opened for every type, and never closed. *)
receive_to_file(fds) == /\ open' = open \cup Range(fds)
                        /\ UNCHANGED <<fd_set, pipes>>

(* The modes not named receive into nothing this program has to look after. *)
data_device_selection ==
  /\ HandleAlive("selection")
  /\ UNCHANGED <<data_offer, offer_list>>
  /\ \/ /\ Head(events).offer # NULL
        /\ mode \in {"DEFAULT", "RECV_SOCKETPAIR"}
        /\ \E fds \in Opened(Len(offer_list)) : receive_offers(fds)
     \/ /\ Head(events).offer # NULL
        /\ mode = "RECV_FILE"
        /\ \E fds \in Opened(Len(offer_list)) : receive_to_file(fds)
     \/ /\ \/ Head(events).offer = NULL
           \/ mode \notin {"DEFAULT", "RECV_SOCKETPAIR", "RECV_FILE"}
        /\ UNCHANGED tableVars

-------------------------------------------------------------------------------
(* What poll reports of e.  A pipe without a writer hangs up; one without a *)
(* reader has an error, which nobody looks at.                              *)
POLLIN(e) == e.recv /\ pipes[e.fd].held > 0

POLLOUT(e) == e.send /\ pipes[e.fd].held < Room

POLLHUP(e) == e.recv /\ ~pipes[e.fd].peer

(* In cat-rand there is no end to what is sent, unless reading it fails. *)
Writes(e) == POLLOUT(e) /\ (mode = "CAT_RANDOM" => urandom)

Wrote(e) == POLLOUT(e) /\ (mode = "CAT_RANDOM" => ~urandom)

(* The references left to e when it has been served; the mutants drop one   *)
(* whenever something was read, and never when the writer is gone.          *)
Left_read(e) == IF Wrote(e) \/ POLLIN(e) THEN e.refcount - 1 ELSE e.refcount

Left_open(e) == IF Wrote(e) THEN e.refcount - 1 ELSE e.refcount

Left(e) == IF Wrote(e) \/ POLLHUP(e) THEN e.refcount - 1 ELSE e.refcount

Held(e) == pipes[e.fd].held - (IF POLLIN(e) THEN 1 ELSE 0)
                            + (IF Writes(e) THEN 1 ELSE 0)

(* The table after the loop over it. *)
ServedTable == [k \in DOMAIN fd_set |->
                  IF k = 1 THEN fd_set[k]
                  ELSE [fd_set[k] EXCEPT !.refcount = Left(fd_set[k])]]

(* remove_done_fds moves the entries that have references to the front; the *)
(* mutant closes descriptors and keeps them.                                *)
Compacted(t) ==
  LET kept[ir \in 0 .. Len(t)] ==
        IF ir = 0 THEN <<>>
        ELSE IF t[ir].refcount > 0 THEN Append(kept[ir - 1], t[ir])
        ELSE kept[ir - 1]
  IN  kept[Len(t)]

Kept_all == ServedTable

Kept == Compacted(ServedTable)

(* What is closed. *)
Done == {ServedTable[k].fd : k \in {j \in DOMAIN fd_set : ServedTable[j].refcount <= 0}}

Kills(e) == Writes(e) /\ ~pipes[e.fd].peer

TransferLoop ==
  /\ alive
  /\ \A k \in 2 .. Len(fd_set) : ~Kills(fd_set[k])
  /\ fd_set' = Kept
  /\ open' = open \ Done
  /\ pipes' = [fd \in Fds |->
                 IF fd \in Done THEN Unconnected
                 ELSE IF fd \notin Transfers THEN pipes[fd]
                 ELSE [pipes[fd] EXCEPT !.held =
                         Held(CHOOSE e \in Range(fd_set) : e.fd = fd)]]
  /\ UNCHANGED <<mode, urandom, data_offer, offer_list, alive, events>>

(* A write after the reader has gone: no program here handles SIGPIPE. *)
Killed == /\ alive
          /\ \E k \in 2 .. Len(fd_set) : Kills(fd_set[k])
          /\ alive' = FALSE
          /\ UNCHANGED <<mode, urandom, tableVars, data_offer, offer_list, events>>

-------------------------------------------------------------------------------
(* The compositor.  An offer is announced in one go, for the selection or   *)
(* for something dragged over the window.                                   *)
Send(msgs) == /\ Len(events) + Len(msgs) <= MaxEvents
              /\ events' = events \o msgs
              /\ UNCHANGED <<mode, urandom, fd_set, data_offer, offer_list, alive>>

InUse == {data_offer} \cup
         {events[k].offer : k \in {j \in DOMAIN events : events[j].type = "data_offer"}}

OfferTo(o, mimes) ==
  <<[type |-> "data_offer", offer |-> o]>>
    \o [k \in DOMAIN mimes |-> [type |-> "offer", mime |-> mimes[k]]]

Selection(o, mimes) == <<[type |-> "selection", offer |-> o, mimes |-> mimes]>>

OtherCopies == \E o \in Offers \ InUse, mimes \in Announced :
                 /\ Send(OfferTo(o, mimes) \o Selection(o, mimes))
                 /\ UNCHANGED <<open, pipes>>

OtherDrags == \E o \in Offers \ InUse, mimes \in Announced :
                /\ Send(OfferTo(o, mimes))
                /\ UNCHANGED <<open, pipes>>

NoSelection == Send(Selection(NULL, <<>>)) /\ UNCHANGED <<open, pipes>>

(* Another client pastes from us, through an empty pipe. *)
OtherPastes == \E fd \in Fds \ open : /\ Send(<<[type |-> "send", fd |-> fd]>>)
                                      /\ open' = open \cup {fd}
                                      /\ pipes' = Piped({fd}, Connected)

(* The other end of a pipe writes, reads or leaves. *)
Peer(fd, p) == /\ pipes[fd].peer
               /\ fd \in open
               /\ pipes' = [pipes EXCEPT ![fd] = p]
               /\ UNCHANGED <<mode, urandom, fd_set, open, data_offer, offer_list, alive, events>>

PeerWrites(fd) == /\ fd \in Receiving
                  /\ pipes[fd].held < Room
                  /\ Peer(fd, [pipes[fd] EXCEPT !.held = @ + 1])

PeerReads(fd) == /\ fd \notin Receiving
                 /\ pipes[fd].held > 0
                 /\ Peer(fd, [pipes[fd] EXCEPT !.held = @ - 1])

PeerCloses(fd) == Peer(fd, [pipes[fd] EXCEPT !.peer = FALSE])

-------------------------------------------------------------------------------
TransferInit == /\ mode \in Modes
                /\ urandom \in BOOLEAN
                /\ urandom => mode = "CAT_RANDOM"
                /\ fd_set = <<DisplayEntry>>
                /\ open = {}
                /\ data_offer = NULL
                /\ offer_list = <<>>
                /\ alive = TRUE
                /\ pipes = [fd \in Fds |-> Unconnected]
                /\ events = <<>>

TransferDispatch == \/ data_source_send
                    \/ data_device_data_offer
                    \/ data_offer_offer
                    \/ data_device_selection

TransferNext == \/ TransferDispatch
                \/ TransferLoop
                \/ Killed
                \/ OtherCopies
                \/ OtherDrags
                \/ NoSelection
                \/ OtherPastes
                \/ \E fd \in Fds : PeerWrites(fd) \/ PeerReads(fd) \/ PeerCloses(fd)

TransferSpec == TransferInit /\ [][TransferNext]_transferVars

(* poll returns when there is something to serve, and what it finds in the  *)
(* socket is dispatched.                                                    *)
TransferFairSpec == /\ TransferSpec
                    /\ WF_transferVars(TransferDispatch)
                    /\ WF_transferVars(TransferLoop \/ Killed)

-------------------------------------------------------------------------------
(* remove_done_fds compacts the table while handlers append to it: the display
   stays first, and what is polled is open, polled once and, between two turns
   of the loop, referenced once, although numbers are used again as soon as they
   are closed. *)
TableSound == /\ fd_set[1] = DisplayEntry
              /\ \A k \in DOMAIN fd_set : fd_set[k].refcount = 1
              /\ IsInjective([k \in DOMAIN fd_set |-> fd_set[k].fd])
              /\ Transfers \subseteq open
              /\ Transfers \cap Requested = {}

(* Every descriptor of a transfer is polled, or about to be, and so will be
   closed; only recv-file leaves descriptors behind. *)
OpenAccounted ==
  open # Transfers \cup Requested => mode = "RECV_FILE"

(* A selection is received from the offer it is about, in the types announced
   for it: data_device_selection does not look at its argument, and types of
   earlier offers and of offers dragged by must not be left. *)
SelectionIsOffer ==
  events # <<>> =>
    (Head(events).type = "selection" =>
       (Head(events).offer # NULL =>
          /\ data_offer = Head(events).offer
          /\ offer_list = Reverse(Head(events).mimes)))

(* A transfer leaves the table when it is over and no earlier: what we receive
   when the writer has closed its end (more than one read may be left unread in
   the pipe then, and is lost), what we send when there was room to write
   it, and random bytes only if there are none. *)
LeftWhenOver ==
  [][\A fd \in Transfers \ Transfers' :
       IF fd \in Receiving THEN ~pipes[fd].peer
       ELSE pipes[fd].held < Room /\ (mode = "CAT_RANDOM" => ~urandom)]_transferVars

(* A transfer whose other end has closed its descriptor leaves the table: a
   hangup is reported again at once, so the loop would spin.  What cat-rand has
   stuffed a pipe with is the exception: poll reports an error, not a hangup. *)
TransfersEnd ==
  \A fd \in Fds :
    (fd \in Transfers /\ ~pipes[fd].peer) ~>
      \/ ~alive
      \/ fd \notin Transfers
      \/ pipes[fd].peer
      \/ mode = "CAT_RANDOM" /\ pipes[fd].held = Room
================================================================================
