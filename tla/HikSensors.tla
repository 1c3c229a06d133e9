------------------------------- MODULE HikSensors -------------------------------
(***************************************************************************)
(* What the sensors of one reader do with an event: the category counters   *)
(* and the visitors of the day, and what of them survives in the restore    *)
(* store.  The TotalSwipes sensor is HikIngest's.                           *)
(***************************************************************************)
EXTENDS Naturals, FiniteSets

CONSTANTS
    Cards,      \* cardholders: a card and the name that goes with it
    NoCard,     \* no card_no in the payload
    MaxCards    \* MAX_CARDS

ASSUME CardsAssumption == NoCard \notin Cards /\ MaxCards \in Nat \ {0}

MINOR_EVENT_LABELS == {1, 21, 22, 75, 76, 81, 82} \cup 6..12
DENIAL_MINOR_CODES == 6..12 \cup {21}

EVENT_CATEGORIES ==
    [card_valid |-> {1}, card_denied |-> 6..12, fingerprint_valid |-> {22},
     fingerprint_invalid |-> {21}, door_events |-> {75, 76, 81, 82}]
Categories == DOMAIN EVENT_CATEGORIES

\* A slip: an invalid fingerprint is no denied card.
MatchesCardDenials(trigger, e) ==
    CASE trigger = "card_read"   -> e.card # NoCard
      [] trigger = "card_denied" -> e.minor \in 6..12
      [] trigger = "door_forced" -> e.minor = 82
      [] OTHER                   -> e.minor = 81

\* _matcher_for, on the labels of the codes.
Matches(trigger, e) ==
    CASE trigger = "card_read"   -> e.card # NoCard
      [] trigger = "card_denied" -> e.minor \in DENIAL_MINOR_CODES
      [] trigger = "door_forced" -> e.minor = 82
      [] OTHER                   -> e.minor = 81

\* lastReset 0: no saved state.
ReaderState == [cards : SUBSET Cards, names : SUBSET Cards, lastReset : Nat,
                counts : [Categories -> Nat]]
NothingSaved == [cards |-> {}, names |-> {}, lastReset |-> 0,
                 counts |-> [k \in Categories |-> 0]]

\* __init__: last_reset is the day of the construction.
Construct(today) == [NothingSaved EXCEPT !.lastReset = today]

\* A slip: yesterday's visitors are taken over.
RestoreAnyDay(m, saved, today) ==
    [saved EXCEPT !.lastReset = today]

\* A slip: the visitors are not restored.
RestoreCountsOnly(m, saved, today) == [m EXCEPT !.counts = saved.counts]

\* A slip: the counters are restored with the visitors, or not at all.
RestoreTodayOnly(m, saved, today) == IF saved.lastReset = today THEN saved ELSE m

\* async_added_to_hass.
Restore(m, saved, today) ==
    IF saved.lastReset = today THEN saved ELSE [m EXCEPT !.counts = saved.counts]

\* A slip: the cap stops the digests only.
VisitNamed(m, e) ==
    [m EXCEPT !.cards = IF Cardinality(m.cards) < MaxCards THEN @ \cup {e.card} ELSE @,
              !.names = IF e.named THEN @ \cup {e.card} ELSE @]

\* A slip: one more than the cap.
VisitPastCap(m, e) ==
    IF Cardinality(m.cards) > MaxCards THEN m
    ELSE [m EXCEPT !.cards = @ \cup {e.card},
                   !.names = IF e.named THEN @ \cup {e.card} ELSE @]

\* UniqueVisitorsTodaySensor._on_event.
Visit(m, e) ==
    IF Cardinality(m.cards) >= MaxCards THEN m
    ELSE [m EXCEPT !.cards = @ \cup {e.card},
                   !.names = IF e.named THEN @ \cup {e.card} ELSE @]

\* EventCategoryCountSensor._on_event, of every category.
Count(m, e) ==
    [m EXCEPT !.counts = [k \in Categories |->
        IF e.minor \in EVENT_CATEGORIES[k] THEN @[k] + 1 ELSE @[k]]]

Hear(m, e) == Count(IF e.card = NoCard THEN m ELSE Visit(m, e), e)

\* _reset_at_midnight.
Reset(m, today) == [m EXCEPT !.cards = {}, !.names = {}, !.lastReset = today]
=============================================================================
