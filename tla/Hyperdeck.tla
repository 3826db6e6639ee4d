----------------------------- MODULE Hyperdeck ------------------------------
(***************************************************************************)
(* hyperdeckwire's client of the HyperDeck Ethernet Protocol: one caller   *)
(* over one TCP connection, no threads and no request ids.  The answer to  *)
(* a command is the next response that is not a notification, so everything*)
(* depends on the stream holding no other response when a command is sent. *)
(*                                                                         *)
(* A response arrives in two pieces (its head and the rest): a read of the *)
(* socket, or the drain before a command, may end between them.            *)
(***************************************************************************)
EXTENDS Integers, Sequences, SequencesExt

CONSTANTS MaxCalls,       \* commands of the run
          MaxConnects,    \* connections
          MaxNotes,       \* notifications of a connection
          MaxStrays,      \* responses the deck sends that nobody asked for
          Backlog         \* NOTIFICATION_BACKLOG

ASSUME DeckBounds ==
    /\ {MaxCalls, MaxConnects, Backlog} \subseteq Nat \ {0}
    /\ {MaxNotes, MaxStrays} \subseteq Nat

VARIABLES
    hd,       \* Hyperdeck: open (_sock), buf, notes (_notifications), call
    stream,   \* the connection's bytes the client has not read
    deck,     \* the deck: commands it has yet to answer, what it has sent
    got,      \* the last answer a caller was given, and for which command
    seen      \* the last notification read_notifications returned

dVars == <<hd, stream, deck, got, seen>>

NoCall   == 0
Greeting == -1            \* connect() is reading the greeting
Calls    == 1 .. MaxCalls

Resp(kind, n) == [kind |-> kind, no |-> n]
Piece(r, end) == [of |-> r, last |-> end]
Pieces(r)     == <<Piece(r, FALSE), Piece(r, TRUE)>>
Nothing       == [cmd |-> NoCall, resp |-> Resp("none", 0), early |-> FALSE]

-----------------------------------------------------------------------------
(* External: the deck. *)

\* The answer, or a line that is none.
DeckAnswers ==
    /\ deck.up /\ deck.owed # <<>>
    /\ \/ stream' = stream \o Pieces(Resp("answer", Head(deck.owed)))
       \/ stream' = Append(stream, Piece(Resp("garbled", Head(deck.owed)), TRUE))
    /\ deck' = [deck EXCEPT !.owed = Tail(@), !.answered = TRUE]
    /\ UNCHANGED <<hd, got, seen>>

DeckNotifies ==
    /\ deck.up /\ deck.noted < MaxNotes
    /\ stream' = stream \o Pieces(Resp("note", deck.noted + 1))
    /\ deck' = [deck EXCEPT !.noted = @ + 1]
    /\ UNCHANGED <<hd, got, seen>>

\* It answers a command twice (bmdwire#19).
DeckStrays ==
    /\ deck.up /\ deck.answered /\ deck.strays > 0
    /\ stream' = stream \o Pieces(Resp("stray", deck.strays))
    /\ deck' = [deck EXCEPT !.strays = @ - 1, !.strayed = TRUE]
    /\ UNCHANGED <<hd, got, seen>>

DeckCloses ==
    /\ deck.up /\ hd.call # NoCall
    /\ deck' = [deck EXCEPT !.up = FALSE]
    /\ UNCHANGED <<hd, stream, got, seen>>

-----------------------------------------------------------------------------
(* Reading. *)

\* Mutant: a full backlog turns the new notification away.
KeptOldest(notes, r) == IF Len(notes) = Backlog THEN notes ELSE Append(notes, r.no)

\* The notification joins the backlog; past its length the oldest goes.
KeptNotes(notes, r) ==
    IF Len(notes) = Backlog THEN Append(Tail(notes), r.no) ELSE Append(notes, r.no)

NotesOf(notes, done) ==
    FoldLeft(LAMBDA ns, q : IF q.last /\ q.of.kind = "note" THEN KeptNotes(ns, q.of) ELSE ns,
             notes, done)

\* Mutant: what has arrived is left for the command to read (before bmdwire#19).
NothingDropped(h, k) == [h EXCEPT !.buf = @ \o SubSeq(stream, 1, k)]

\* _drop_unrequested, when the first k pieces of the stream have arrived: every
\* complete response goes, the notifications to the backlog, and a half one
\* stays.  A line that is no response ends it with OSError (Garbled).
Dropped(h, k) ==
    LET all  == h.buf \o SubSeq(stream, 1, k)
        bad  == SelectInSeq(all, LAMBDA q : q.of.kind = "garbled")
        done == IF bad = 0 THEN Len(all) - (IF all # <<>> /\ ~Last(all).last THEN 1 ELSE 0)
                ELSE bad
    IN [h EXCEPT !.buf = SubSeq(all, done + 1, Len(all)),
                 !.notes = NotesOf(@, SubSeq(all, 1, done))]

Arrived(k) == {q.of : q \in {r \in Range(hd.buf \o SubSeq(stream, 1, k)) : r.last}}
Garbled(k) == \E r \in Arrived(k) : r.kind = "garbled"
Rest(k) == SubSeq(stream, k + 1, Len(stream))

\* Mutant: the connection outlives a call that timed out (before bmdwire#18).
LeftOpen(h) == [h EXCEPT !.call = NoCall]

\* close(), as a timeout and a greeting that is not one call it.
Closed(h) == [h EXCEPT !.open = FALSE, !.call = NoCall]

-----------------------------------------------------------------------------
(* The caller's calls. *)

\* connect(): over an open connection it closes that one first.
DeckConnect ==
    /\ hd.call = NoCall /\ deck.conns < MaxConnects
    /\ hd' = [open |-> TRUE, buf |-> <<>>, notes |-> <<>>, call |-> Greeting,
              sent |-> hd.sent, early |-> {}]
    /\ \E kind \in {"greeting", "refusal"} : stream' = Pieces(Resp(kind, 0))
    /\ deck' = [deck EXCEPT !.up = TRUE, !.owed = <<>>, !.answered = FALSE,
                            !.noted = 0, !.strayed = FALSE, !.conns = @ + 1]
    /\ seen' = 0 /\ got' = Nothing

DeckClose ==
    /\ hd.open /\ hd.call = NoCall
    /\ hd' = Closed(hd)
    /\ UNCHANGED <<stream, deck, got, seen>>

\* request(): what has arrived is dropped, and then the command goes out, unless
\* it holds a line break (ValueError) or the deck has closed (ConnectionError).
Request ==
    /\ hd.open /\ hd.call = NoCall
    /\ \E k \in 0 .. Len(stream), broken \in BOOLEAN :
          /\ stream' = Rest(k)
          /\ IF broken \/ ~deck.up \/ Garbled(k)
             THEN hd' = Dropped(hd, k) /\ UNCHANGED deck
             ELSE /\ hd.sent < MaxCalls
                  /\ hd' = [Dropped(hd, k) EXCEPT !.call = hd.sent + 1, !.sent = @ + 1,
                                                  !.early = Arrived(k)]
                  /\ deck' = [deck EXCEPT !.owed = Append(@, hd.sent + 1)]
    /\ UNCHANGED <<got, seen>>

\* What a complete response does to the call: a notification is put by (the
\* greeting is one by its code, and connect() takes it), any other ends the call,
\* in connect() with the connection if it is not the greeting.
TakenFrom(h, r) ==
    CASE r.kind = "note"    -> [h EXCEPT !.notes = KeptNotes(@, r)]
      [] r.kind = "refusal" -> Closed(h)
      [] OTHER              -> [h EXCEPT !.call = NoCall]

\* _read_response takes the next piece; a line that is no response raises.
DeckRead ==
    /\ hd.call # NoCall /\ stream # <<>>
    /\ stream' = Tail(stream)
    /\ LET q == Head(stream) IN
       /\ hd' = IF q.last THEN TakenFrom([hd EXCEPT !.buf = <<>>], q.of)
                ELSE [hd EXCEPT !.buf = <<q>>]
       /\ got' = IF q.last /\ q.of.kind \in {"answer", "stray"}
                 THEN [cmd |-> hd.call, resp |-> q.of, early |-> q.of \in hd.early]
                 ELSE got
    /\ UNCHANGED <<deck, seen>>

\* The call's time is over, with or without half an answer.
TimesOut ==
    /\ hd.call # NoCall
    /\ hd' = Closed(hd)
    /\ UNCHANGED <<stream, deck, got, seen>>

\* The deck has closed and everything it sent was read: ConnectionError, and the
\* caller has the closed socket until it calls connect() or close(); connect()
\* itself closes.
PeerClosed ==
    /\ hd.call # NoCall /\ ~deck.up /\ stream = <<>>
    /\ hd' = IF hd.call = Greeting THEN Closed(hd) ELSE [hd EXCEPT !.call = NoCall]
    /\ UNCHANGED <<stream, deck, got, seen>>

\* read_notifications(), having waited or not.
ReadNotifications ==
    /\ hd.open /\ hd.call = NoCall
    /\ \E k \in 0 .. Len(stream) :
          LET h == Dropped(hd, k)
              raises == Garbled(k) \/ ~deck.up          \* OSError, ConnectionError
          IN /\ stream' = Rest(k)
             /\ hd' = IF raises THEN h ELSE [h EXCEPT !.notes = <<>>]
             /\ seen' = IF raises \/ h.notes = <<>> THEN seen ELSE Last(h.notes)
    /\ UNCHANGED <<deck, got>>

-----------------------------------------------------------------------------

DeckInit ==
    /\ hd = [open |-> FALSE, buf |-> <<>>, notes |-> <<>>, call |-> NoCall,
             sent |-> 0, early |-> {}]
    /\ stream = <<>> /\ got = Nothing /\ seen = 0
    /\ deck = [up |-> FALSE, owed |-> <<>>, answered |-> FALSE, noted |-> 0,
               conns |-> 0, strays |-> MaxStrays, strayed |-> FALSE]

DeckNext ==
    \/ DeckConnect \/ DeckClose \/ Request \/ DeckRead \/ TimesOut \/ PeerClosed
    \/ ReadNotifications
    \/ DeckAnswers \/ DeckNotifies \/ DeckStrays \/ DeckCloses

DeckSpec == DeckInit /\ [][DeckNext]_dVars

-----------------------------------------------------------------------------
(* Properties. *)

\* request() returns the command's own answer: no late answer of a call that
\* timed out, none of another connection, no notification, and a response the
\* deck sent unasked, or one it put off, only if it came after the command went
\* out, when nothing can tell the two apart (bmdwire#18, bmdwire#19).
AnswerIsOwn ==
    got # Nothing =>
        ~got.early /\ (deck.strayed \/ got.resp = Resp("answer", got.cmd))

\* Every notification of the connection that was read off the wire is waiting to
\* be read or was returned, in its order, whichever call met it, but for those a
\* full backlog pushed out, the oldest.
NotesKept ==
    hd.open =>
        LET all    == hd.buf \o stream
            coming == {i \in 1 .. Len(all) : all[i].last /\ all[i].of.kind = "note"}
            taken  == deck.noted - Cardinality(coming)
            n      == IF taken - seen > Backlog THEN Backlog ELSE taken - seen
        IN hd.notes = [i \in 1 .. n |-> taken - n + i]
=============================================================================
