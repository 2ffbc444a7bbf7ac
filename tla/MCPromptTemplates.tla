--------------------------- MODULE MCPromptTemplates ---------------------------
EXTENDS PromptTemplates

\* A source tree with and without its build, a container with the build only,
\* and deployments that miss one template in one or in both places.
Deployments ==
    LET src == {f \in File : f[1] = "src"}
        dist == {f \in File : f[1] = "dist"}
        without(fs, n) == {f \in fs : f[2] # n}
    IN  { src \cup dist, src, dist,
          without(src, "text.user.prompt.md") \cup dist,
          without(src \cup dist, "text.user.prompt.md"),
          without(src \cup dist, "image.system.prompt.md") }
==============================================================================
