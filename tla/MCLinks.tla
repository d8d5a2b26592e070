------------------------------ MODULE MCLinks -------------------------------
(***************************************************************************)
(* The hub's map of who is connected, the scheduler of reminders and the   *)
(* daemon's connection, for TLC: everything that is said of a connection   *)
(* and under fairness.  The modules share no variable; a behaviour here    *)
(* has one part that steps, which makes a sum of their state spaces in     *)
(* place of the product.                                                   *)
(***************************************************************************)
EXTENDS MCPresence, MCReminders, HubLifecycle

VARIABLE part     \* the part that steps

linksVars == <<part, presenceVars, remindersVars, lifecycleVars>>

(* What a part that does not step begins with makes no difference. *)
LinksInit ==
    /\ part \in {"presence", "reminders", "lifecycle"}
    /\ PresenceInit /\ RemindersInit /\ LifecycleInit
    /\ part # "reminders" => request = Interval

LinksNext ==
    /\ UNCHANGED part
    /\ \/ /\ part = "presence" /\ PresenceNext
          /\ UNCHANGED <<remindersVars, lifecycleVars>>
       \/ /\ part = "reminders" /\ RemindersNext
          /\ UNCHANGED <<presenceVars, lifecycleVars>>
       \/ /\ part = "lifecycle" /\ LifecycleNext
          /\ UNCHANGED <<presenceVars, remindersVars>>

(* PresenceFairness, RemindersFairness and LifecycleFairness, each for the *)
(* behaviours in which that part steps.                                    *)
OnPresence == part = "presence"
OnReminders == part = "reminders"
OnLifecycle == part = "lifecycle"

LinksFairness ==
    /\ WF_presenceVars(OnPresence /\ Sweep)
    /\ OutagesEnd
    /\ WF_remindersVars(OnReminders /\ Boot) /\ WF_remindersVars(OnReminders /\ HubRegisters)
    /\ WF_remindersVars(OnReminders /\ Scan) /\ WF_remindersVars(OnReminders /\ Take)
    /\ WF_remindersVars(OnReminders /\ Settle)
    /\ SF_remindersVars(OnReminders /\ GetsAnswer)
    /\ \A i \in Ids : SF_remindersVars(OnReminders /\ GetsThrough(i))
    /\ <>[][~LinkFault]_lifecycleVars
    /\ WF_lifecycleVars(OnLifecycle /\ DaemonBoots(TRUE))
    /\ WF_lifecycleVars(OnLifecycle /\ TimerFires(TRUE))
    /\ WF_lifecycleVars(OnLifecycle /\ \E q \in sent : HubAnswers(q, TRUE))
    /\ WF_lifecycleVars(OnLifecycle /\ TimerOrEvent)
    /\ WF_lifecycleVars(OnLifecycle /\ Recover)

LinksSpec == LinksInit /\ [][LinksNext]_linksVars /\ LinksFairness

(* The three parts' variables keep their types. *)
LinksTypeOK == PresenceTypeOK /\ RemindersTypeOK /\ LifecycleTypeOK
=============================================================================
