CONSTANT MaxInfos = 2
SPECIFICATION Spec
INVARIANT PromptedInTurn
