---------------------------- MODULE Installation ----------------------------
(***************************************************************************)
(* What the shadow installer promises: on each host either nothing of      *)
(* Latent Compass is installed, or one release with the projects that are  *)
(* registered for it, and a call changes all the hosts that it names at    *)
(* once.  Removing the last project removes the release.                   *)
(***************************************************************************)
CONSTANTS Host, Release, Project, Nothing

VARIABLE installed   \* of each host: Nothing, or the release and its projects

Installed == [release : Release, projects : (SUBSET Project) \ {{}}]

Registered(h) ==
  IF installed[h] = Nothing THEN {} ELSE installed[h].projects

Init == installed \in [Host -> Installed \cup {Nothing}]

Install(hosts, r, p) ==
  installed' = [h \in Host |->
    IF h \in hosts
    THEN [release |-> r, projects |-> Registered(h) \cup {p}]
    ELSE installed[h]]

\* Removing a project that is not registered changes nothing.
Remove(hosts, gone) ==
  installed' = [h \in Host |->
    IF h \notin hosts \/ installed[h] = Nothing THEN installed[h]
    ELSE IF Registered(h) \subseteq gone THEN Nothing
    ELSE [installed[h] EXCEPT !.projects = @ \ gone]]

Next ==
  \E hosts \in SUBSET Host :
    \/ \E r \in Release, p \in Project : Install(hosts, r, p)
    \/ \E gone \in {{p} : p \in Project} \cup {Project} : Remove(hosts, gone)

Spec == Init /\ [][Next]_installed
=============================================================================
