----------------------------- MODULE MCAgentBot ------------------------------
(* An instance of AgentBot for TLC. *)
EXTENDS AgentBot

CONSTANTS U1, M2

\* The other maker creates its agent only while hardly anything happens in the
\* room: its agent is in no room, and what it shares with the bot is the
\* registry.
OneOrTheOther == sent' <= 1 \/ making'[M2] = "none"

\* What an event does to the mirror.
Effect(e) == CASE e.kind = "existing"        -> <<e.map>>
               [] e.kind \in {"chat", "raw"} -> <<>>
               [] OTHER                      -> <<e.id, e.pos>>

\* States up to who said something: no guard looks at the authors in events and
\* log, nor at fresh, which is taken from them, and no property but TypeOK.
BotView ==
    <<roster, unsent, watching, link, [i \in 1..Len(inbox) |-> Effect(inbox[i])], sent,
      overtaken, clients, pending = NoEvent, Len(log), nextId, upto, agents, restarted,
      bpc, cursor, view, greeted, handle, taken, deaf>>
=============================================================================
