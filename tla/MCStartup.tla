------------------------------ MODULE MCStartup ------------------------------
(***************************************************************************)
(* Startup under sets of circumstances.                                    *)
(***************************************************************************)
EXTENDS Startup, TLC

MCBoth(x) == [e \in Ends |-> x]

\* Any options, path counts and metrics; the connection of path 1, or
\* the control connection, may fail.
MCAll ==
    {c \in Config : /\ c.failing \in {{}, {0}, {1}}
                    /\ c.measured \in {{}, {0}, {0, 1}, Paths \cup {0}}}

\* The ends agree on who selects the paths and on how many they are, every
\* destination has metrics, and no connection fails.
MCHealthy ==
    {[resp |-> MCBoth(r), active |-> MCBoth(n), paths |-> TRUE,
      measured |-> Paths \cup {0}, failing |-> {}] :
        r \in {"client", "server"}, n \in 0 .. MaxPaths}

\* As it is, but the options of the ends may differ.
MCAnyOptions ==
    {[c EXCEPT !.resp = r] : c \in MCHealthy, r \in [Ends -> {"client", "server"}]}
=============================================================================
