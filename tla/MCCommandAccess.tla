-------------------------- MODULE MCCommandAccess --------------------------
\* CommandAccess with a service command that users and the agent may call and a
\* matcher's that only users may, in two plugins below one package.
EXTENDS CommandAccess, TLC

CONSTANTS s1, s2

MCNames == {"submit", "hand in", "push"}
MCModules == {"app", "app.tasks", "app.notice"}
MCPackages == [m \in MCModules |-> {"app", m}]
MCSortRank == [m \in MCModules |-> CASE m = "app" -> 1 [] m = "app.notice" -> 2 [] m = "app.tasks" -> 3]
MCRoles == {"user", "student", "cadre"}
MCRoleSets == {{"user"}, {"user", "student"}, {"user", "student", "cadre"}}
MCCommands == {"submit", "push"}

MCSpec == [x \in MCCommands |->
  CASE x = "submit" ->
         [names |-> {"submit", "hand in"}, module |-> "app.tasks", roles |-> {"student"}, bars |-> {"cadre"},
          mode |-> "service", callable |-> TRUE, visible |-> TRUE, handler |-> TRUE, auto |-> TRUE]
    [] x = "push" ->
         [names |-> {"push"}, module |-> "app.notice", roles |-> {"student"}, bars |-> {},
          mode |-> "matcher", callable |-> FALSE, visible |-> TRUE, handler |-> FALSE, auto |-> FALSE]]

MCSlots == {s1, s2}
Symmetry == Permutations(MCSlots)

=============================================================================
