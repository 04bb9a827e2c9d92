CONSTANT MaxBacklog = 1
SPECIFICATION Spec
INVARIANT OutputIsOfCommand
