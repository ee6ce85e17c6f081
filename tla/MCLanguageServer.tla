-------------------------- MODULE MCLanguageServer --------------------------
EXTENDS LanguageServer

CONSTANTS main, lib, base

\* main imports lib and perhaps base too, and then has errors; lib may import
\* base, and base lib, a circle that goes well only if lib is loaded first, for
\* base lacks signatures; or base does not parse.
Graph ==
    [x \in Files \X Texts |->
        CASE x = <<main, 1>> -> {lib}
          [] x = <<main, 2>> -> {lib, base}
          [] x = <<lib, 1>> -> {base}
          [] x = <<base, 1>> -> {lib}
          [] OTHER -> {}]
AnyText == [f \in Files |-> Texts]
MainHasErrors == {<<main, 2>>}
BaseFailsInCircles == {<<base, 1>>}
BaseDoesNotParse == {<<base, 2>>}
=============================================================================
