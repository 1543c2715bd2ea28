---------------------------- MODULE MCIdleMonitor ----------------------------
(* Thirty seconds to a unit would give a timeout of some minutes and the    *)
(* twenty seconds to two minutes of the periodic window.                    *)
EXTENDS IdleMonitor
=============================================================================
