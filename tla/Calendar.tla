------------------------------- MODULE Calendar -------------------------------
(***************************************************************************)
(* The writes of src/mcp/calendar.rs.  An event is read, refused when others   *)
(* are invited to it, and then changed or deleted in a request that does not *)
(* look again; only the fields given are sent, and there is no field for     *)
(* guests.                                                                  *)
(***************************************************************************)
EXTENDS ToolCalls

CONSTANTS
    EventIds,      \* ids Calendar gives to events, from 1 up
    InCalendar     \* the events there are to begin with

VARIABLES
    events,    \* the events, None where there never was one
    existing,  \* the event a call has read
    patch      \* the fields a call is to send

eventVars == <<events, existing, patch>>

\* kind: an instant or a whole day.
When(kind, at) == [kind |-> kind, at |-> at]
Event(title, start, end, place, guests) ==
    [there |-> TRUE, title |-> title, start |-> start, end |-> end, place |-> place, guests |-> guests]

IsEvent(r) == r = [f \in DOMAIN Event("", None, None, None, {}) |-> r[f]]

Fields == {"title", "start", "end", "place"}
EventDraft == [f \in Fields |-> None]

CalendarInit ==
    /\ events = InCalendar
    /\ existing = [c \in Calls |-> None]
    /\ patch = [c \in Calls |-> EventDraft]

CreateEventParam(title, start, end, place, allDay) ==
    [tool |-> "newEvent", title |-> title, start |-> start, end |-> end, place |-> place, allDay |-> allDay]
UpdateEventParam(event, title, start, end, place, allDay) ==
    [tool |-> "changeEvent", event |-> event, title |-> title, start |-> start, end |-> end, place |-> place,
     allDay |-> allDay]
DeleteEventParam(event) == [tool |-> "deleteEvent", event |-> event]

\* A time as a caller writes it: [date, at], where a date may stand for an
\* instant, midnight, and an instant may not stand for a date.
Readable(given, allDay) == given = None \/ (allDay => given.date)
Moment(given, allDay) ==
    IF given = None THEN None ELSE When(IF allDay THEN "day" ELSE "time", given.at)

\* A blank field is one left out.
Clean(text) == IF text = "" THEN None ELSE text

\* Mutant of Draft: a field left out is taken from the event that was read.
DraftWhole(o, allDay, event) ==
    LET kept(given, old) == IF given = None THEN old ELSE given
    IN [title |-> kept(Clean(o.title), event.title), place |-> kept(Clean(o.place), event.place),
        start |-> kept(Moment(o.start, allDay), event.start), end |-> kept(Moment(o.end, allDay), event.end)]

\* The fields that were given, of the event that was read.
Draft(o, allDay, event) ==
    [title |-> Clean(o.title), place |-> Clean(o.place), start |-> Moment(o.start, allDay), end |-> Moment(o.end, allDay)]

-----------------------------------------------------------------------------

Reject(c) == Goto(c, "refused") /\ Unspent /\ UNCHANGED eventVars
Lose(c) == Goto(c, "failed") /\ Unspent /\ UNCHANGED eventVars

\* Calendar did it; the reply may be lost.
Done(c, i, event) ==
    /\ events' = [events EXCEPT ![i] = event]
    /\ \E to \in {"done", "failed"} : Goto(c, to)
    /\ Unspent /\ UNCHANGED <<existing, patch>>

\* Calendar takes an event whose two ends are of one kind.
Sound(event) == event.start.kind = event.end.kind

Existing(i) == events[i] # None /\ events[i].there

NewEventId(i) == events[i] = None /\ \A j \in EventIds : j < i => events[j] # None

CalendarCreateEvent(c) ==
    LET o == op[c]
        event == Event(o.title, Moment(o.start, o.allDay), Moment(o.end, o.allDay), Clean(o.place), {})
    IN /\ Under(c, "newEvent", "called")
       /\ IF o.title = "" \/ ~Readable(o.start, o.allDay) \/ ~Readable(o.end, o.allDay) THEN Reject(c)
          ELSE \/ Lose(c)
               \/ \E i \in EventIds : NewEventId(i) /\ Done(c, i, event)

\* calendar::get_event, and refuse_attendees.
ReadEvent(c, to) ==
    \/ Lose(c)
    \/ /\ Existing(op[c].event)
       /\ IF events[op[c].event].guests # {} THEN Reject(c)
          ELSE /\ Goto(c, to)
               /\ existing' = [existing EXCEPT ![c] = events[op[c].event]]
               /\ Unspent /\ UNCHANGED <<events, patch>>

CalendarUpdateEvent(c) == Under(c, "changeEvent", "called") /\ ReadEvent(c, "drafting")
CalendarDeleteEvent(c) == Under(c, "deleteEvent", "called") /\ ReadEvent(c, "deleting")

\* Whole days are what the event has, unless the caller says.
DraftEvent(c) ==
    LET o == op[c]
        allDay == IF o.allDay = None THEN existing[c].start.kind = "day" ELSE o.allDay
        draft == Draft(o, allDay, existing[c])
    IN /\ pc[c] = "drafting"
       /\ IF ~Readable(o.start, allDay) \/ ~Readable(o.end, allDay) \/ draft = EventDraft THEN Reject(c)
          ELSE /\ Goto(c, "patching")
               /\ patch' = [patch EXCEPT ![c] = draft]
               /\ Unspent /\ UNCHANGED <<events, existing>>

\* confirmed=false: the event and the fields are shown, and the call made again.
PreviewEvent(c) ==
    /\ pc[c] \in {"patching", "deleting"}
    /\ Goto(c, "called") /\ Unspent
    /\ existing' = [existing EXCEPT ![c] = None]
    /\ patch' = [patch EXCEPT ![c] = EventDraft]
    /\ UNCHANGED events

\* events.patch: a field that is not sent keeps its value.
PatchEvent(c) ==
    LET i == op[c].event
        event == [f \in DOMAIN events[i] |-> IF f \in Fields /\ patch[c][f] # None THEN patch[c][f] ELSE events[i][f]]
    IN /\ pc[c] = "patching"
       /\ \/ Lose(c)
          \/ Existing(i) /\ Sound(event) /\ Done(c, i, event)

DeleteEvent(c) ==
    /\ pc[c] = "deleting"
    /\ \/ Lose(c)
       \/ Existing(op[c].event) /\ Done(c, op[c].event, [events[op[c].event] EXCEPT !.there = FALSE])

EventCall(c) ==
    \/ CalendarCreateEvent(c) \/ CalendarUpdateEvent(c) \/ CalendarDeleteEvent(c)
    \/ DraftEvent(c) \/ PreviewEvent(c) \/ PatchEvent(c) \/ DeleteEvent(c)

-----------------------------------------------------------------------------
(* The person in Calendar, who may invite others at any time.               *)

PersonInCalendar ==
    \E i \in EventIds :
        /\ Existing(i)
        /\ \/ events' = [events EXCEPT ![i].guests = {"ann"}]
           \/ events' = [events EXCEPT ![i].place = "elsewhere"]
           \/ events' = [events EXCEPT ![i].there = FALSE]
=============================================================================
