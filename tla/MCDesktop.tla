-------------------------------- MODULE MCDesktop --------------------------------
(***************************************************************************)
(* Desktop for TLC: two threads for the proxy, two that restart it.        *)
(***************************************************************************)
EXTENDS Desktop

CONSTANTS r1, r2, menu, settings

MCRuns == {r1, r2}
MCActors == {Main, Update, menu, settings}

\* Restarts that overlap, among clients; an update among clients; an update beside a
\* restart and a second instance; and one beside an instance that is not recognised.
Scene(windows_, blind_, cast) == [windows |-> windows_, blind |-> blind_, cast |-> cast]

MCScenes ==
  {Scene(TRUE, FALSE, {Network, menu, settings}),
   Scene(TRUE, FALSE, {Network, Update}),
   Scene(FALSE, FALSE, {Network, Update}),
   Scene(TRUE, FALSE, {Rival, menu, Update}),
   Scene(FALSE, FALSE, {Rival, menu, Update}),
   Scene(FALSE, TRUE, {Rival, Update})}
==================================================================================
