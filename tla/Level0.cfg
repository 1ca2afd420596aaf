SPECIFICATION Spec
CONSTANT Program <- Level0
INVARIANTS TypeOK ErrorIsProvoked GoodCaseIsGood LabelTellsTheMisuse CleanEnd
