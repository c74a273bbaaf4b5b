------------------------------- MODULE MCTdarr ------------------------------
(* The yield controller and the schedule around the scraper's window.      *)
EXTENDS TdarrCoord

CONSTANTS vllm, steam

OneRule == <<steam>>

\* The hours of a night inside safe-batch only, the first second of the scraper's window, and
\* the first after it.
Night ==
  <<[day |-> "Thu", second |-> 7200], [day |-> "Fri", second |-> 7200],
    [day |-> "Fri", second |-> 25200]>>

\* The comment on runTdarrSchedule, "Fri 02:00-07:00", on both sides of each edge of the
\* windows and of the day.
ASSUME FridayOnly ==
  \A d \in Weekdays, s \in {0, 7199, 7200, 25199, 25200, 32399, 32400, 86399} :
    ~SafeForBackgroundGPU([day |-> d, second |-> s]) <=> d = "Fri" /\ s \in 7200..25199

=============================================================================
